---- MODULE Spec2Model ----
(***************************************************************************)
(* Medistock: a pharmacy inventory dashboard.                              *)
(*                                                                         *)
(* The module models                                                       *)
(*   - the inventory store of database.py: the medicines table, the       *)
(*     stock_history table, the SERIAL sequences of both, and the         *)
(*     PostgreSQL connections the store functions open (one transaction   *)
(*     per connection, committed by conn.commit(), discarded when the     *)
(*     connection goes away uncommitted);                                 *)
(*   - the barcode resolver of barcode_service.py: the basic lookup, the  *)
(*     AI enhancement, the AI-only guess, the fallback chain and the      *)
(*     suggested form fields;                                             *)
(*   - the scanner page and the add-medicine page of app.py;              *)
(*   - the validators and the stock classifier of utils.py.               *)
(*                                                                         *)
(* Spec            is the store used by two sessions at a time, their     *)
(*                 calls interleaved statement by statement;              *)
(* SpecSequential  is the store used by one session: a call starts when   *)
(*                 the call before it has ended;                          *)
(* SpecBarcode     is the scanner page: lookup, suggestions, recent scans;*)
(* SpecScanHistory is a scanner session over many barcodes;               *)
(* SpecForms       is the add-medicine page in front of the store;        *)
(* SpecStatus      is get_stock_status applied to any two integers.       *)
(***************************************************************************)
EXTENDS Integers, Sequences, FiniteSets, TLC

VARIABLES
    medicines,      \* committed rows of table medicines: id -> row
    stock_history,  \* committed rows of table stock_history, in insertion order
    next_id,        \* next value of the sequence behind medicines.id
    next_hist_id,   \* next value of the sequence behind stock_history.id
    open_conns,     \* the connections left open by store calls that raised:
                    \* the exception of each and the line it was raised at
    last_call,      \* the latest store call of a page: its name and outcome
    lookup,         \* the latest barcode lookup: inputs, steps run, result
    suggestions,    \* what suggest_medicine_data gave for that lookup
    barcode_history, \* st.session_state.barcode_history: the recent scans
    form,           \* the add-medicine form as it was last submitted
    status,         \* a call of get_stock_status: arguments and result
    fn_call,        \* a call of another function of utils.py or of
                    \* ai_services.py: its name, arguments and result
    low_stock,      \* what the latest get_low_stock_medicines returned
    sessions        \* the store calls in progress in concurrent sessions:
                    \* function, position, locals

vars == <<medicines, stock_history, next_id, next_hist_id, open_conns,
          last_call, lookup, suggestions, barcode_history, form, status,
          fn_call, low_stock, sessions>>

scanner_vars == <<lookup, suggestions, barcode_history>>

other_vars == <<fn_call, low_stock, sessions>>

page_vars == <<lookup, suggestions, barcode_history, form, status,
               fn_call, low_stock, sessions>>

store_vars == <<medicines, stock_history, next_id, next_hist_id, open_conns,
                last_call>>

(***************************************************************************)
(* Bounds of the model.                                                    *)
(***************************************************************************)
MaxId == 2          \* medicines.id values handed out
MaxHistory == 2     \* stock_history.id values handed out
MaxDrawn == 4       \* ids handed out by the two sequences together
MaxTextLen == 3     \* tokens in a language-model response
MaxCodes == 11      \* different barcodes scanned in one session
MaxStock == 7       \* largest stock and reorder point given to get_stock_status
MaxDays == 31       \* largest days_until_expiry given to get_alert_priority
MaxMedicines == 3   \* longest list given to categorize_medicines_by_criticality
MaxUsageHalves == 4 \* largest avg_daily_usage given, in halves of a unit
MaxRows == 2        \* most medicines in the store the low-stock query reads
MaxInventory == 22  \* longest list given to get_inventory_recommendations

Ids == 1..MaxId
NameList == <<"A", "B">>        \* in collation order
NameRank(n) == CHOOSE i \in DOMAIN NameList : NameList[i] = n
\* The arguments the add-medicine page passes to add_medicine: its number
\* widgets have min_value=0 and the submit handler tests name,
\* current_stock >= 0, reorder_point >= 0 and unit_price >= 0 before the
\* call (app.py 260-263, 277).  The form of the scanner page is never
\* drawn: line 385 raises UnboundLocalError (datetime is a local of
\* show_barcode_scanner, bound at line 491 only).
AddInputs ==
    { [name |-> "A", current_stock |-> 1, reorder_point |-> 1, unit_price |-> 0],
      [name |-> "B", current_stock |-> 0, reorder_point |-> 0, unit_price |-> 1] }

\* the numbers of the New Stock Quantity widget of the inventory page
\* (min_value=0, app.py 233)
NewStockQuantities == {0, 2}

\* an inventory page that passes on whatever number it is given
UpdateInputs_unchecked ==
    { [new_stock |-> n, reason |-> "Manual update"] :
          n \in NewStockQuantities \cup {0 - 1} }

\* the new_stock and reason the program passes to update_stock: the
\* inventory page tests new_stock >= 0 and passes the widget's number and
\* no reason, so the default applies (app.py 239, 248; database.py 81).
\* The quick stock update of the scanner page (app.py 434-465) is never
\* reached: line 385 ends the run of the page before it.
UpdateInputs ==
    { [new_stock |-> n, reason |-> "Manual update"] :
          n \in {q \in NewStockQuantities : q >= 0} }

None == "None"


(***************************************************************************)
(* The inventory store (database.py).                                      *)
(*                                                                         *)
(* A row of medicines keeps the columns the store's queries read or order  *)
(* by; expiry_date, batch_number, supplier, category, location and the     *)
(* timestamps are written once by add_medicine and only ever copied.       *)
(* unit_price is counted in whole currency units.                          *)
(*                                                                         *)
(* Every store function opens its own connection.  psycopg2 starts a       *)
(* transaction at the first statement; its writes reach the committed      *)
(* tables at conn.commit() and nowhere else.  A function that raises       *)
(* returns without commit() and without close(): the connection stays      *)
(* open until the interpreter releases the connection object.  When it is  *)
(* a statement that raised, the server has ended the transaction and freed *)
(* its row locks by the time it reports the error; the ValueError of       *)
(* update_stock is raised after a SELECT, which locks no row.              *)
(*                                                                         *)
(* Within one script run CPython releases the connection object when the  *)
(* exception that holds the raising frame has been handled, before the     *)
(* run's next store call; the runs of other sessions go on meanwhile.      *)
(*                                                                         *)
(* fail names the statement that raises a database error in a call         *)
(* ("none": no statement does).  A statement that raises has no effect and *)
(* undoes the statements of the call before it.                            *)
(***************************************************************************)
NoCall == [op |-> "init_database", outcome |-> "ok"]

\* What a store call hands back to the model: its outcome ("ok", or the
\* exception raised), the committed tables and sequences after it, and
\* whether it leaves its connection open, with the line that raised.
Returned(meds, hist, nid, nhid) ==
    [outcome |-> "ok", medicines |-> meds, stock_history |-> hist,
     next_id |-> nid, next_hist_id |-> nhid, leaked |-> FALSE, lineno |-> 0]

Raised(exc, meds, hist, nid, nhid, leaked, lineno) ==
    [outcome |-> exc, medicines |-> meds, stock_history |-> hist,
     next_id |-> nid, next_hist_id |-> nhid, leaked |-> leaked, lineno |-> lineno]

\* CREATE TABLE IF NOT EXISTS medicines / stock_history on an empty database
init_database ==
    /\ medicines = <<>>
    /\ stock_history = <<>>
    /\ next_id = 1
    /\ next_hist_id = 1
    /\ open_conns = <<>>
    /\ last_call = NoCall

\* INSERT INTO medicines (...) VALUES (...): the id comes from the sequence
sql_insert_medicine(meds, id, row) ==
    [i \in (DOMAIN meds) \cup {id} |-> IF i = id THEN row ELSE meds[i]]

\* SELECT current_stock FROM medicines WHERE id = %s: the rows selected
sql_select_current_stock(meds, medicine_id) ==
    IF medicine_id \in DOMAIN meds
    THEN << meds[medicine_id].current_stock >>
    ELSE << >>

\* UPDATE medicines SET current_stock = %s WHERE id = %s
sql_update_current_stock(meds, medicine_id, new_stock) ==
    [i \in DOMAIN meds |->
        IF i = medicine_id
        THEN [meds[i] EXCEPT !.current_stock = new_stock]
        ELSE meds[i]]

\* the INSERT as an upsert keyed by medicine_id: a medicine's earlier row is
\* overwritten in place
sql_upsert_stock_history(hist, hid, medicine_id, old_stock, new_stock, reason) ==
    LET row == [id |-> hid, medicine_id |-> medicine_id,
                old_stock |-> old_stock, new_stock |-> new_stock,
                change_reason |-> reason]
    IN  IF \E k \in DOMAIN hist : hist[k].medicine_id = medicine_id
        THEN [k \in DOMAIN hist |->
                 IF hist[k].medicine_id = medicine_id
                 THEN [row EXCEPT !.id = hist[k].id]
                 ELSE hist[k]]
        ELSE Append(hist, row)

\* INSERT INTO stock_history (medicine_id, old_stock, new_stock, change_reason)
sql_insert_stock_history(hist, hid, medicine_id, old_stock, new_stock, reason) ==
    Append(hist, [id |-> hid, medicine_id |-> medicine_id,
                  old_stock |-> old_stock, new_stock |-> new_stock,
                  change_reason |-> reason])

\* DELETE FROM medicines WHERE id = %s
sql_delete_medicine(meds, medicine_id) ==
    [i \in (DOMAIN meds) \ {medicine_id} |-> meds[i]]

\* stock_history.medicine_id REFERENCES medicines(id): the rows of hist
\* that reference no row of meds
fk_violations(meds, hist) ==
    {k \in DOMAIN hist : hist[k].medicine_id \notin DOMAIN meds}

add_medicine(meds, hist, nid, nhid, name, current_stock, reorder_point, unit_price, fail) ==
    LET row == [name |-> name, current_stock |-> current_stock,
                reorder_point |-> reorder_point, unit_price |-> unit_price]
        inserted == sql_insert_medicine(meds, nid, row)
    IN  IF fail = "connect"
        THEN Raised("OperationalError", meds, hist, nid, nhid, FALSE, 52)
        ELSE IF fail = "insert"
        THEN Raised("Error", meds, hist, nid, nhid, TRUE, 55)
        ELSE Returned(inserted, hist, nid + 1, nhid)

\* SELECT ... FROM medicines ORDER BY name: the orders the query may
\* return the rows in (rows of equal name come in any order)
get_all_medicines(meds) ==
    {q \in [1..Cardinality(DOMAIN meds) -> DOMAIN meds] :
        /\ \A i, j \in DOMAIN q : i # j => q[i] # q[j]
        /\ \A i, j \in DOMAIN q :
              i < j => NameRank(meds[q[i]].name) <= NameRank(meds[q[j]].name)}

\* SELECT ... FROM medicines WHERE id = %s; fetchone(): the row, or no row
get_medicine_by_id(meds, medicine_id) ==
    IF medicine_id \in DOMAIN meds
    THEN << [id |-> medicine_id] @@ meds[medicine_id] >>
    ELSE << >>

\* the DELETE lacking its WHERE clause: no history row is left
sql_delete_all_stock_history(hist, medicine_id) ==
    << >>

\* DELETE FROM stock_history WHERE medicine_id = %s
sql_delete_stock_history(hist, medicine_id) ==
    SelectSeq(hist, LAMBDA h : h.medicine_id # medicine_id)

(***************************************************************************)
(* The store's calls statement by statement.  Streamlit runs the script of *)
(* each browser session in a thread of its own, so the store calls of      *)
(* different sessions interleave between statements.  Each call has its    *)
(* own connection and transaction at PostgreSQL's default isolation level, *)
(* READ COMMITTED:                                                         *)
(*   - a SELECT reads the committed rows and waits for nothing;            *)
(*   - an UPDATE or DELETE of a row waits, inside execute, while another   *)
(*     transaction holds the row's lock, and then acts on the row as last  *)
(*     committed; the rows a DELETE ... WHERE medicine_id = X goes for are *)
(*     the ones committed when the statement began;                        *)
(*   - the foreign key of stock_history is checked by the statement: an    *)
(*     INSERT needs the medicine's row, a DELETE of a medicine needs no    *)
(*     committed history row left that references it;                      *)
(*   - a call's writes reach the tables at its commit.                     *)
(*   - a statement the server rejects ends the transaction: the server    *)
(*     undoes its statements and frees its row locks at the error.        *)
(* A statement that raises ends the call with neither commit() nor         *)
(* close(): the connection stays open, holding no row lock, until the      *)
(* thread lets go of the exception, while the other sessions go on.  A     *)
(* thread has one call in progress or one connection left open at a time.  *)
(*                                                                         *)
(* A session's record: op is the store function, pc the statement last     *)
(* executed, medicine_id, row, new_stock and reason the arguments (for     *)
(* add_medicine medicine_id is the id its INSERT drew), which enter the    *)
(* record at the first statement they are passed to, old_stock the         *)
(* SELECT's result, rowcount the rows the UPDATE or DELETE FROM medicines  *)
(* changed, hist_id the id the history INSERT drew, deleted the ids of the *)
(* history rows the DELETE FROM stock_history goes for.                    *)
(***************************************************************************)
Sessions == {1, 2}

IdleSession ==
    [op |-> "", pc |-> "idle", medicine_id |-> 0, row |-> << >>,
     new_stock |-> 0, reason |-> "", old_stock |-> 0, rowcount |-> 0,
     hist_id |-> 0, deleted |-> {}]

NoSessions == [s \in Sessions |-> IdleSession]

\* the sessions after the call of session s ended: the calls in progress
\* are numbered in the order they started
session_ended(s) ==
    [t \in Sessions |->
        IF t < s THEN sessions[t]
        ELSE IF t + 1 \in Sessions THEN sessions[t + 1] ELSE IdleSession]

\* no store call is in progress
AllIdle == \A s \in Sessions : sessions[s].pc = "idle"

\* session s is at statement pc of a call of op
At(s, op, pc) == sessions[s].op = op /\ sessions[s].pc = pc

MedicineLock(medicine_id) == <<"medicines", medicine_id>>
HistoryLock(hist_id) == <<"stock_history", hist_id>>

\* the row locks the transaction of a session holds: the medicine its
\* UPDATE or DELETE changed, the history rows its DELETE removed
session_locks(s) ==
    (IF /\ sessions[s].pc \in {"updated", "inserted", "row_deleted"}
        /\ sessions[s].rowcount = 1
     THEN {MedicineLock(sessions[s].medicine_id)}
     ELSE {})
    \cup
    (IF sessions[s].pc \in {"history_deleted", "row_deleted"}
     THEN {HistoryLock(h) : h \in sessions[s].deleted}
     ELSE {})

\* the transaction of a call in progress other than that of session s
\* holds the lock
locked(s, lock) ==
    \E t \in Sessions \ {s} : lock \in session_locks(t)

\* the threads that have a call in progress or a connection left open
threads_busy ==
    Cardinality({t \in Sessions : sessions[t].pc # "idle"}) + Len(open_conns)

\* the calls in progress that have not drawn their medicine id yet
awaiting_id ==
    Cardinality({t \in Sessions : At(t, "add_medicine", "connected")})

\* the calls in progress that have not drawn their history id yet
awaiting_hist_id ==
    Cardinality({t \in Sessions :
                    /\ sessions[t].op = "update_stock"
                    /\ sessions[t].pc \in {"connected", "selected", "updated"}})

\* the ids the two sequences have handed out, and the ones the calls in
\* progress are going to draw
ids_drawn ==
    (next_id - 1) + awaiting_id + (next_hist_id - 1) + awaiting_hist_id

\* the ids of the rows of hist
history_ids(hist) == {hist[k].id : k \in DOMAIN hist}

\* a session whose thread is free starts a call; a session takes the lowest
\* free number
CanConnect(s) ==
    /\ sessions[s].pc = "idle"
    /\ \A t \in Sessions : t < s => sessions[t].pc # "idle"
    /\ threads_busy < Cardinality(Sessions)

\* psycopg2.connect raises: there is no connection
ConnectRaise(op) ==
    UNCHANGED <<sessions, open_conns>>

\* line lineno of the call raises exc after the connection was opened:
\* the call's transaction is over and its row locks are free, the
\* connection stays open
CallRaise(s, exc, lineno) ==
    /\ sessions' = session_ended(s)
    /\ open_conns' = Append(open_conns, [exc |-> exc, lineno |-> lineno])

\* conn.commit() succeeded; conn.close() and the return
CallReturn(s) ==
    /\ sessions' = session_ended(s)
    /\ UNCHANGED open_conns

(***************************************************************************)
(* add_medicine                                                            *)
(***************************************************************************)
\* add_medicine(name, current_stock, ...) is called: connect, cursor
AddMedicineConnect(s, fail) ==
    /\ CanConnect(s)
    /\ next_id + awaiting_id <= MaxId
    /\ ids_drawn < MaxDrawn
    /\ IF fail = "connect"
       THEN ConnectRaise("add_medicine")
       ELSE /\ sessions' = [sessions EXCEPT ![s] =
                  [IdleSession EXCEPT !.op = "add_medicine", !.pc = "connected"]]
            /\ UNCHANGED open_conns
    /\ UNCHANGED <<medicines, stock_history, next_id, next_hist_id, last_call>>
    /\ UNCHANGED <<scanner_vars, form, status, fn_call, low_stock>>

\* INSERT INTO medicines (...) VALUES (...): the id is drawn from the
\* sequence
AddMedicineInsert(s, m, fail) ==
    /\ At(s, "add_medicine", "connected")
    /\ IF fail = "insert"
       THEN /\ CallRaise(s, "Error", 55)
            /\ UNCHANGED next_id
       ELSE /\ sessions' = [sessions EXCEPT
                  ![s].pc = "inserted",
                  ![s].medicine_id = next_id,
                  ![s].row = [name |-> m.name,
                              current_stock |-> m.current_stock,
                              reorder_point |-> m.reorder_point,
                              unit_price |-> m.unit_price]]
            /\ next_id' = next_id + 1
            /\ UNCHANGED open_conns
    /\ UNCHANGED <<medicines, stock_history, next_hist_id, last_call>>
    /\ UNCHANGED <<scanner_vars, form, status, fn_call, low_stock>>

\* conn.commit(): the new row reaches the table; conn.close()
AddMedicineCommit(s) ==
    /\ At(s, "add_medicine", "inserted")
    /\ medicines' = sql_insert_medicine(medicines, sessions[s].medicine_id,
                                        sessions[s].row)
    /\ CallReturn(s)
    /\ UNCHANGED <<stock_history, next_id, next_hist_id, last_call>>
    /\ UNCHANGED <<scanner_vars, form, status, fn_call, low_stock>>

(***************************************************************************)
(* update_stock                                                            *)
(***************************************************************************)
\* update_stock(medicine_id, new_stock, reason) is called: connect, cursor
UpdateStockConnect(s, fail) ==
    /\ CanConnect(s)
    /\ next_hist_id + awaiting_hist_id <= MaxHistory
    /\ ids_drawn < MaxDrawn
    /\ IF fail = "connect"
       THEN ConnectRaise("update_stock")
       ELSE /\ sessions' = [sessions EXCEPT ![s] =
                  [IdleSession EXCEPT !.op = "update_stock", !.pc = "connected"]]
            /\ UNCHANGED open_conns
    /\ UNCHANGED <<medicines, stock_history, next_id, next_hist_id, last_call>>
    /\ UNCHANGED <<scanner_vars, form, status, fn_call, low_stock>>

\* UpdateStockSelect without the test of the SELECT's result: for an absent
\* id the call returns normally
UpdateStockSelect_unchecked(s, medicine_id, fail) ==
    /\ At(s, "update_stock", "connected")
    /\ LET result == sql_select_current_stock(medicines, medicine_id)
       IN  IF fail = "select"
           THEN CallRaise(s, "Error", 87)
           ELSE IF result = << >>
           THEN CallReturn(s)
           ELSE /\ sessions' = [sessions EXCEPT ![s].pc = "selected",
                                                ![s].medicine_id = medicine_id,
                                                ![s].old_stock = result[1]]
                /\ UNCHANGED open_conns
    /\ UNCHANGED <<medicines, stock_history, next_id, next_hist_id, last_call>>
    /\ UNCHANGED <<scanner_vars, form, status, fn_call, low_stock>>

\* SELECT current_stock ...; fetchone(); raise ValueError if there is no
\* row; old_stock = result[0]
UpdateStockSelect(s, medicine_id, fail) ==
    /\ At(s, "update_stock", "connected")
    /\ LET result == sql_select_current_stock(medicines, medicine_id)
       IN  IF fail = "select"
           THEN CallRaise(s, "Error", 87)
           ELSE IF result = << >>
           THEN CallRaise(s, "ValueError", 90)
           ELSE /\ sessions' = [sessions EXCEPT ![s].pc = "selected",
                                                ![s].medicine_id = medicine_id,
                                                ![s].old_stock = result[1]]
                /\ UNCHANGED open_conns
    /\ UNCHANGED <<medicines, stock_history, next_id, next_hist_id, last_call>>
    /\ UNCHANGED <<scanner_vars, form, status, fn_call, low_stock>>

\* UpdateStockUpdate on an autocommit connection: the UPDATE reaches the
\* table when it is executed, whatever happens to the INSERT
UpdateStockUpdate_autocommit(s, u, fail) ==
    /\ At(s, "update_stock", "selected")
    /\ IF fail = "update"
       THEN /\ CallRaise(s, "Error", 94)
            /\ UNCHANGED medicines
       ELSE /\ ~locked(s, MedicineLock(sessions[s].medicine_id))
            /\ sessions' = [sessions EXCEPT
                  ![s].pc = "updated",
                  ![s].new_stock = u.new_stock,
                  ![s].reason = u.reason,
                  ![s].rowcount = IF sessions[s].medicine_id \in DOMAIN medicines
                                  THEN 1 ELSE 0]
            /\ medicines' = sql_update_current_stock(medicines,
                                                     sessions[s].medicine_id,
                                                     u.new_stock)
            /\ UNCHANGED open_conns
    /\ UNCHANGED <<stock_history, next_id, next_hist_id, last_call>>
    /\ UNCHANGED <<scanner_vars, form, status, fn_call, low_stock>>

\* UPDATE medicines SET current_stock = ... WHERE id = ...: runs when no
\* other transaction holds the row's lock, on the row as committed by
\* then; it changes no row when the medicine is gone
UpdateStockUpdate(s, u, fail) ==
    /\ At(s, "update_stock", "selected")
    /\ IF fail = "update"
       THEN CallRaise(s, "Error", 94)
       ELSE /\ ~locked(s, MedicineLock(sessions[s].medicine_id))
            /\ sessions' = [sessions EXCEPT
                  ![s].pc = "updated",
                  ![s].new_stock = u.new_stock,
                  ![s].reason = u.reason,
                  ![s].rowcount = IF sessions[s].medicine_id \in DOMAIN medicines
                                  THEN 1 ELSE 0]
            /\ UNCHANGED open_conns
    /\ UNCHANGED <<medicines, stock_history, next_id, next_hist_id, last_call>>
    /\ UNCHANGED <<scanner_vars, form, status, fn_call, low_stock>>

\* INSERT INTO stock_history ...: the row's id is drawn from the sequence;
\* the foreign key rejects the row of a medicine that is gone
UpdateStockInsert(s, fail) ==
    /\ At(s, "update_stock", "updated")
    /\ IF fail = "insert"
       THEN /\ CallRaise(s, "Error", 101)
            /\ UNCHANGED next_hist_id
       ELSE IF sessions[s].medicine_id \notin DOMAIN medicines
       THEN /\ CallRaise(s, "Error", 101)
            /\ next_hist_id' = next_hist_id + 1
       ELSE /\ sessions' = [sessions EXCEPT ![s].pc = "inserted",
                                            ![s].hist_id = next_hist_id]
            /\ next_hist_id' = next_hist_id + 1
            /\ UNCHANGED open_conns
    /\ UNCHANGED <<medicines, stock_history, next_id, last_call>>
    /\ UNCHANGED <<scanner_vars, form, status, fn_call, low_stock>>

\* UpdateStockCommit with the history row written from the row as it is
\* after the UPDATE: old_stock is the new stock
UpdateStockCommit_old_after_update(s) ==
    /\ At(s, "update_stock", "inserted")
    /\ medicines' = sql_update_current_stock(medicines, sessions[s].medicine_id,
                                             sessions[s].new_stock)
    /\ stock_history' = sql_insert_stock_history(stock_history, sessions[s].hist_id,
                                                 sessions[s].medicine_id,
                                                 sessions[s].new_stock,
                                                 sessions[s].new_stock,
                                                 sessions[s].reason)
    /\ CallReturn(s)
    /\ UNCHANGED <<next_id, next_hist_id, last_call>>
    /\ UNCHANGED <<scanner_vars, form, status, fn_call, low_stock>>

\* UpdateStockCommit of a call without its UPDATE statement: the history
\* row is written and the medicine keeps its stock
UpdateStockCommit_no_update(s) ==
    /\ At(s, "update_stock", "inserted")
    /\ medicines' = medicines
    /\ stock_history' = sql_insert_stock_history(stock_history, sessions[s].hist_id,
                                                 sessions[s].medicine_id,
                                                 sessions[s].old_stock,
                                                 sessions[s].new_stock,
                                                 sessions[s].reason)
    /\ CallReturn(s)
    /\ UNCHANGED <<next_id, next_hist_id, last_call>>
    /\ UNCHANGED <<scanner_vars, form, status, fn_call, low_stock>>

\* conn.commit(): the UPDATE and the history row reach the tables;
\* conn.close() and the return
UpdateStockCommit(s) ==
    /\ At(s, "update_stock", "inserted")
    /\ medicines' = sql_update_current_stock(medicines, sessions[s].medicine_id,
                                             sessions[s].new_stock)
    /\ stock_history' = sql_insert_stock_history(stock_history, sessions[s].hist_id,
                                                 sessions[s].medicine_id,
                                                 sessions[s].old_stock,
                                                 sessions[s].new_stock,
                                                 sessions[s].reason)
    /\ CallReturn(s)
    /\ UNCHANGED <<next_id, next_hist_id, last_call>>
    /\ UNCHANGED <<scanner_vars, form, status, fn_call, low_stock>>

(***************************************************************************)
(* delete_medicine                                                         *)
(***************************************************************************)
\* delete_medicine(medicine_id) is called: connect, cursor
DeleteMedicineConnect(s, fail) ==
    /\ CanConnect(s)
    /\ IF fail = "connect"
       THEN ConnectRaise("delete_medicine")
       ELSE /\ sessions' = [sessions EXCEPT ![s] =
                  [IdleSession EXCEPT !.op = "delete_medicine", !.pc = "connected"]]
            /\ UNCHANGED open_conns
    /\ UNCHANGED <<medicines, stock_history, next_id, next_hist_id, last_call>>
    /\ UNCHANGED <<scanner_vars, form, status, fn_call, low_stock>>

\* DELETE FROM stock_history WHERE medicine_id = %s begins: it goes for the
\* history rows of the medicine that are committed now, and is through
\* with them at once unless another transaction holds the lock of one
DeleteMedicineHistory(s, medicine_id, fail) ==
    /\ At(s, "delete_medicine", "connected")
    /\ IF fail = "delete"
       THEN CallRaise(s, "Error", 214)
       ELSE LET rows == history_ids(stock_history) \
                           history_ids(sql_delete_stock_history(
                                           stock_history, medicine_id))
            IN  /\ sessions' = [sessions EXCEPT
                      ![s].pc = IF \E h \in rows : locked(s, HistoryLock(h))
                                THEN "history_waiting"
                                ELSE "history_deleted",
                      ![s].medicine_id = medicine_id,
                      ![s].deleted = rows]
                /\ UNCHANGED open_conns
    /\ UNCHANGED <<medicines, stock_history, next_id, next_hist_id, last_call>>
    /\ UNCHANGED <<scanner_vars, form, status, fn_call, low_stock>>

\* the DELETE FROM stock_history goes on when the other transaction has
\* ended: it removes the rows it went for that are still there
DeleteMedicineHistoryResume(s) ==
    /\ At(s, "delete_medicine", "history_waiting")
    /\ \A h \in sessions[s].deleted : ~locked(s, HistoryLock(h))
    /\ sessions' = [sessions EXCEPT
          ![s].pc = "history_deleted",
          ![s].deleted = sessions[s].deleted \cap history_ids(stock_history)]
    /\ UNCHANGED <<medicines, stock_history, next_id, next_hist_id,
                   last_call, open_conns>>
    /\ UNCHANGED <<scanner_vars, form, status, fn_call, low_stock>>

\* DeleteMedicineRow on a schema whose stock_history.medicine_id is a plain
\* INTEGER: the medicine goes whatever history rows reference it
DeleteMedicineRow_no_foreign_key(s, fail) ==
    /\ At(s, "delete_medicine", "history_deleted")
    /\ IF fail = "delete"
       THEN CallRaise(s, "Error", 217)
       ELSE /\ ~locked(s, MedicineLock(sessions[s].medicine_id))
            /\ sessions' = [sessions EXCEPT
                  ![s].pc = "row_deleted",
                  ![s].rowcount = IF sessions[s].medicine_id \in DOMAIN medicines
                                  THEN 1 ELSE 0]
            /\ UNCHANGED open_conns
    /\ UNCHANGED <<medicines, stock_history, next_id, next_hist_id, last_call>>
    /\ UNCHANGED <<scanner_vars, form, status, fn_call, low_stock>>

\* DELETE FROM medicines WHERE id = %s: runs when no other transaction
\* holds the row's lock, on the row as committed by then.  The foreign key
\* rejects it when a committed history row that this call did not remove
\* references the medicine: the row a concurrent update_stock committed
\* after the first DELETE.  The rejected call's transaction is over: the
\* history rows its first DELETE went for stay and their locks are free.
DeleteMedicineRow(s, fail) ==
    /\ At(s, "delete_medicine", "history_deleted")
    /\ IF fail = "delete"
       THEN CallRaise(s, "Error", 217)
       ELSE /\ ~locked(s, MedicineLock(sessions[s].medicine_id))
            /\ LET medicine_id == sessions[s].medicine_id
                   meds1 == sql_delete_medicine(medicines, medicine_id)
                   hist1 == SelectSeq(stock_history,
                                      LAMBDA h : h.id \notin sessions[s].deleted)
               IN  IF fk_violations(meds1, hist1) # {}
                   THEN CallRaise(s, "Error", 217)
                   ELSE /\ sessions' = [sessions EXCEPT
                              ![s].pc = "row_deleted",
                              ![s].rowcount = IF medicine_id \in DOMAIN medicines
                                              THEN 1 ELSE 0]
                        /\ UNCHANGED open_conns
    /\ UNCHANGED <<medicines, stock_history, next_id, next_hist_id, last_call>>
    /\ UNCHANGED <<scanner_vars, form, status, fn_call, low_stock>>

\* conn.commit(): what the two DELETEs removed leaves the tables;
\* conn.close()
DeleteMedicineCommit(s) ==
    /\ At(s, "delete_medicine", "row_deleted")
    /\ medicines' = IF sessions[s].rowcount = 1
                    THEN sql_delete_medicine(medicines, sessions[s].medicine_id)
                    ELSE medicines
    /\ stock_history' = SelectSeq(stock_history,
                                  LAMBDA h : h.id \notin sessions[s].deleted)
    /\ CallReturn(s)
    /\ UNCHANGED <<next_id, next_hist_id, last_call>>
    /\ UNCHANGED <<scanner_vars, form, status, fn_call, low_stock>>

\* The thread lets go of the exception of a call that raised: the
\* interpreter releases the connection object and the connection closes.
ConnDealloc ==
    /\ \E k \in DOMAIN open_conns :
          open_conns' = [i \in 1..(Len(open_conns) - 1) |->
                            IF i < k THEN open_conns[i] ELSE open_conns[i + 1]]
    /\ UNCHANGED <<medicines, stock_history, next_id, next_hist_id,
                   last_call>>
    /\ UNCHANGED page_vars

(***************************************************************************)
(* A store call of a page as one step: the script of one session runs one  *)
(* call at a time, and a call starts when the connection of the call       *)
(* before it is gone.                                                      *)
(***************************************************************************)
StoreStep(r, call) ==
    /\ open_conns = << >>
    /\ medicines' = r.medicines
    /\ stock_history' = r.stock_history
    /\ next_id' = r.next_id
    /\ next_hist_id' = r.next_hist_id
    /\ open_conns' = IF r.leaked
                     THEN Append(open_conns, [exc |-> r.outcome, lineno |-> r.lineno])
                     ELSE open_conns
    /\ last_call' = [call EXCEPT !.outcome = r.outcome]

(***************************************************************************)
(* The barcode resolver (barcode_service.py).                              *)
(*                                                                         *)
(* A Python dict is a function from its keys to their values; a missing    *)
(* key is a key outside the domain.  None is the string None.              *)
(*                                                                         *)
(* A response text of the language model is a sequence of tokens.  A       *)
(* token is an opening brace, a closing brace, a word of prose, or one     *)
(* member "key": "value" of a JSON object (adjacent members read as        *)
(* separated by commas).  find, rfind and slicing count in tokens.         *)
(***************************************************************************)
LBRACE == [k |-> "{", v |-> ""]
RBRACE == [k |-> "}", v |-> ""]
WORD == [k |-> "word", v |-> ""]
Members ==
    { [k |-> "product_name", v |-> "Amoxicillin 500mg"],
      [k |-> "confidence", v |-> "high"],
      [k |-> "estimated_price", v |-> "$12.50"],
      [k |-> "suggested_reorder_point", v |-> "15"],
      [k |-> "suggested_reorder_point", v |-> "ten"],
      [k |-> "storage_requirements", v |-> "Cool"] }
Tokens == {LBRACE, RBRACE, WORD} \cup Members

Texts == UNION {[1..n -> Tokens] : n \in 0..MaxTextLen}

Barcodes == {"012345678905", "300450444"}

\* What requests.get(...) does: it raises (timeout, connection error, a body
\* that is no JSON), or it returns a response with a status code and a body
\* that has an 'items' list or has none.
BasicItems ==
    { << >>,
      [title |-> ""],
      [title |-> "Amoxil"],
      [title |-> "Amoxil", category |-> "Health"] }
BasicResponses ==
    { [kind |-> "exception", status_code |-> 0, has_items |-> FALSE, items |-> << >>],
      [kind |-> "response", status_code |-> 404, has_items |-> FALSE, items |-> << >>],
      [kind |-> "response", status_code |-> 200, has_items |-> FALSE, items |-> << >>],
      [kind |-> "response", status_code |-> 200, has_items |-> TRUE, items |-> << >>] }
    \cup
    { [kind |-> "response", status_code |-> 200, has_items |-> TRUE, items |-> << item >>] :
         item \in BasicItems }

\* What chat.completions.create(...) does: it raises, or it returns a
\* message whose content is None or a text.
LlmResponses ==
    { [kind |-> "exception", is_none |-> TRUE, text |-> << >>],
      [kind |-> "content", is_none |-> TRUE, text |-> << >>] }
    \cup
    { [kind |-> "content", is_none |-> FALSE, text |-> t] : t \in Texts }

\* Python truth of a string or None
Truthy(v) == v \notin {"", None}

\* dict.get(key, default)
DictGet(d, key, default) == IF key \in DOMAIN d THEN d[key] ELSE default

\* {**a, **b}
DictMerge(a, b) ==
    [key \in (DOMAIN a) \cup (DOMAIN b) |-> IF key \in DOMAIN b THEN b[key] ELSE a[key]]

\* d[key] = value
DictSet(d, key, value) ==
    [j \in (DOMAIN d) \cup {key} |-> IF j = key THEN value ELSE d[j]]

\* str.find(t): the index, counted from 0, of the first t, or -1
find(text, t) ==
    IF \E i \in DOMAIN text : text[i] = t
    THEN (CHOOSE i \in DOMAIN text :
             text[i] = t /\ \A j \in DOMAIN text : text[j] = t => i <= j) - 1
    ELSE -1

\* str.rfind(t): the index, counted from 0, of the last t, or -1
rfind(text, t) ==
    IF \E i \in DOMAIN text : text[i] = t
    THEN (CHOOSE i \in DOMAIN text :
             text[i] = t /\ \A j \in DOMAIN text : text[j] = t => j <= i) - 1
    ELSE -1

\* text[a:b] for a, b >= 0
slice(text, a, b) ==
    LET e == IF b < Len(text) THEN b ELSE Len(text)
    IN  IF e <= a THEN << >> ELSE SubSeq(text, a + 1, e)

\* json.loads: a text is a JSON document when it is one object, an opening
\* brace, members, a closing brace; of members with one key the last counts
json_loads(json_str) ==
    LET n == Len(json_str)
        well_formed == /\ n >= 2
                       /\ json_str[1] = LBRACE
                       /\ json_str[n] = RBRACE
                       /\ \A i \in 2..(n - 1) : json_str[i] \in Members
        keys == {json_str[i].k : i \in 2..(n - 1)}
        last(key) == CHOOSE i \in 2..(n - 1) :
                        /\ json_str[i].k = key
                        /\ \A j \in 2..(n - 1) : json_str[j].k = key => j <= i
    IN  IF well_formed
        THEN [exc |-> "", value |-> [key \in keys |-> json_str[last(key)].v]]
        ELSE [exc |-> "JSONDecodeError", value |-> << >>]

\* The JSON extraction both AI steps share: what json.loads(json_str) gives
\* for a non-empty response text.  json_str is assigned only when the text
\* has an opening brace (end_idx, rfind + 1, is never -1).
extract_json(ai_response) ==
    LET start_idx == find(ai_response, LBRACE)
        end_idx == rfind(ai_response, RBRACE) + 1
    IN  IF start_idx # -1 /\ end_idx # -1
        THEN json_loads(slice(ai_response, start_idx, end_idx))
        ELSE [exc |-> "UnboundLocalError", value |-> << >>]

\* what a resolver function returns: None or a dict; exc names the
\* exception that leaves the function instead, if one does
Value(d) == [exc |-> "", none |-> FALSE, value |-> d]
NoneValue == [exc |-> "", none |-> TRUE, value |-> << >>]
Raise(exc) == [exc |-> exc, none |-> TRUE, value |-> << >>]

\* the basic lookup without its exception handler: a timeout or a network
\* error of requests.get leaves the function as an exception
_lookup_barcode_basic_unguarded(barcode, response) ==
    IF response.kind = "exception"
    THEN Raise("RequestException")
    ELSE IF response.status_code = 200
            /\ response.has_items /\ Len(response.items) > 0
    THEN LET item == response.items[1]
         IN  Value([key \in {"barcode", "product_name", "brand", "description",
                             "category", "images"} |->
                       CASE key = "barcode" -> barcode
                         [] key = "product_name" -> DictGet(item, "title", "")
                         [] key = "brand" -> DictGet(item, "brand", "")
                         [] key = "description" -> DictGet(item, "description", "")
                         [] key = "category" -> DictGet(item, "category", "")
                         [] key = "images" -> DictGet(item, "images", << >>)])
    ELSE NoneValue

_lookup_barcode_basic(barcode, response) ==
    IF response.kind = "exception"
    THEN NoneValue
    ELSE IF response.status_code = 200
            /\ response.has_items /\ Len(response.items) > 0
    THEN LET item == response.items[1]
         IN  Value([key \in {"barcode", "product_name", "brand", "description",
                             "category", "images"} |->
                       CASE key = "barcode" -> barcode
                         [] key = "product_name" -> DictGet(item, "title", "")
                         [] key = "brand" -> DictGet(item, "brand", "")
                         [] key = "description" -> DictGet(item, "description", "")
                         [] key = "category" -> DictGet(item, "category", "")
                         [] key = "images" -> DictGet(item, "images", << >>)])
    ELSE NoneValue

\* the try block of _enhance_with_ai
_enhance_with_ai_try(product_info, llm) ==
    IF llm.kind = "exception"
    THEN Raise("APIError")
    ELSE LET ai_response == llm.text
             content == [is_none |-> llm.is_none, text |-> llm.text]
             parsed == extract_json(ai_response)
         IN  IF ~llm.is_none /\ ai_response # << >>
             THEN IF parsed.exc = ""
                  THEN Value(DictMerge(product_info, parsed.value))
                  ELSE IF parsed.exc = "JSONDecodeError"
                  THEN Value(DictSet(product_info, "ai_analysis", content))
                  ELSE Raise(parsed.exc)
             ELSE Value(DictSet(product_info, "ai_analysis", content))

_enhance_with_ai(product_info, llm) ==
    LET r == _enhance_with_ai_try(product_info, llm)
    IN  IF r.exc # "" THEN Value(product_info) ELSE r

\* the try block of _ai_barcode_lookup
_ai_barcode_lookup_try(barcode, llm) ==
    IF llm.kind = "exception"
    THEN Raise("APIError")
    ELSE LET ai_response == llm.text
             content == [is_none |-> llm.is_none, text |-> llm.text]
             parsed == extract_json(ai_response)
             basic_structure ==
                 [key \in {"barcode", "likely_medicine", "product_name",
                           "confidence", "ai_response"} |->
                     CASE key = "barcode" -> barcode
                       [] key = "likely_medicine" -> FALSE
                       [] key = "product_name" -> "Unknown Product"
                       [] key = "confidence" -> "low"
                       [] key = "ai_response" -> content]
         IN  IF ~llm.is_none /\ ai_response # << >>
             THEN IF parsed.exc = ""
                  THEN Value(parsed.value)
                  ELSE IF parsed.exc = "JSONDecodeError"
                  THEN Value(basic_structure)
                  ELSE Raise(parsed.exc)
             ELSE Value(basic_structure)

_ai_barcode_lookup(barcode, llm) ==
    LET r == _ai_barcode_lookup_try(barcode, llm)
    IN  IF r.exc # "" THEN NoneValue ELSE r

\* the try block with a second attempt: when the enhancement adds nothing
\* to the basic record, the AI-only guess is run as well
get_medicine_info_from_barcode_retry(barcode, response, llm) ==
    LET product_info == _lookup_barcode_basic(barcode, response)
        enhanced == _enhance_with_ai(product_info.value, llm)
    IN  IF ~product_info.none /\ DOMAIN product_info.value # {}
           /\ Truthy(DictGet(product_info.value, "product_name", None))
        THEN IF enhanced.value = product_info.value
             THEN [steps |-> << "_lookup_barcode_basic", "_enhance_with_ai",
                                "_ai_barcode_lookup" >>]
                     @@ _ai_barcode_lookup(barcode, llm)
             ELSE [steps |-> << "_lookup_barcode_basic", "_enhance_with_ai" >>]
                     @@ enhanced
        ELSE [steps |-> << "_lookup_barcode_basic", "_ai_barcode_lookup" >>]
                @@ _ai_barcode_lookup(barcode, llm)

\* the try block of get_medicine_info_from_barcode, with the steps it runs
get_medicine_info_from_barcode_try(barcode, response, llm) ==
    LET product_info == _lookup_barcode_basic(barcode, response)
    IN  IF product_info.exc # ""
        THEN [steps |-> << "_lookup_barcode_basic" >>] @@ product_info
        ELSE IF ~product_info.none /\ DOMAIN product_info.value # {}
                /\ Truthy(DictGet(product_info.value, "product_name", None))
        THEN [steps |-> << "_lookup_barcode_basic", "_enhance_with_ai" >>]
                @@ _enhance_with_ai(product_info.value, llm)
        ELSE [steps |-> << "_lookup_barcode_basic", "_ai_barcode_lookup" >>]
                @@ _ai_barcode_lookup(barcode, llm)

\* the lookup with no exception handler of its own or in its AI steps
get_medicine_info_from_barcode_unguarded(barcode, response, llm) ==
    LET product_info == _lookup_barcode_basic(barcode, response)
    IN  IF ~product_info.none /\ DOMAIN product_info.value # {}
           /\ Truthy(DictGet(product_info.value, "product_name", None))
        THEN [steps |-> << "_lookup_barcode_basic", "_enhance_with_ai" >>]
                @@ _enhance_with_ai_try(product_info.value, llm)
        ELSE [steps |-> << "_lookup_barcode_basic", "_ai_barcode_lookup" >>]
                @@ _ai_barcode_lookup_try(barcode, llm)

get_medicine_info_from_barcode(barcode, response, llm) ==
    LET r == get_medicine_info_from_barcode_try(barcode, response, llm)
    IN  IF r.exc # ""
        THEN [steps |-> r.steps] @@ NoneValue
        ELSE r

(***************************************************************************)
(* Python strings.  Where the code looks into a string, the string is the  *)
(* sequence of its characters: Chars spells the strings of the model.      *)
(***************************************************************************)
RECURSIVE Chars(_)
Chars(str) ==
    LET pads == {"", " "}
        barcodes == {"012345678905", "300450444"}
        numerals == {ToString(i) : i \in 0..99}
        spelt(p) == p[1] \o p[2] \o p[3]
        \* str is a text of cores with or without a blank before and after
        padded(cores) == \E p \in pads \X cores \X pads : spelt(p) = str
        parts(cores) == CHOOSE p \in pads \X cores \X pads : spelt(p) = str
        chars(p) == Chars(p[1]) \o Chars(p[2]) \o Chars(p[3])
    IN  CASE str = "" -> << >>
          [] str = " " -> << " " >>
          [] str = "15" -> << "1", "5" >>
          [] str = "ten" -> << "t", "e", "n" >>
          [] str = "$12.50" -> << "$", "1", "2", ".", "5", "0" >>
          [] str = "Cool" -> << "C", "o", "o", "l" >>
          [] str = "A" -> << "A" >>
          [] str = "Ab" -> << "A", "b" >>
          [] str = " A " -> << " ", "A", " " >>
          [] str = "<Ab>" -> << "<", "A", "b", ">" >>
          [] str = "B-1" -> << "B", "-", "1" >>
          [] str = "B 1" -> << "B", " ", "1" >>
          [] str = "012345678905" ->
                << "0", "1", "2", "3", "4", "5", "6", "7", "8", "9", "0", "5" >>
          [] str = "300450444" ->
                << "3", "0", "0", "4", "5", "0", "4", "4", "4" >>
          [] padded(barcodes) -> chars(parts(barcodes))
          [] \E i \in 0..9 : ToString(i) = str -> << str >>
          [] \E i \in 10..99 : ToString(i) = str ->
                LET i == CHOOSE i \in 10..99 : ToString(i) = str
                IN  << ToString(i \div 10), ToString(i % 10) >>
          [] OTHER -> chars(parts(numerals))

\* str.isdigit() of one character
isdigit(c) == \E d \in 0..9 : ToString(d) = c

\* the number a sequence of decimal digits writes
RECURSIVE DecimalValue(_)
DecimalValue(cs) ==
    IF cs = << >>
    THEN 0
    ELSE LET d == CHOOSE d \in 0..9 : ToString(d) = cs[Len(cs)]
         IN  DecimalValue(SubSeq(cs, 1, Len(cs) - 1)) * 10 + d

\* str.strip()
RECURSIVE strip(_)
strip(cs) ==
    IF cs = << >> THEN cs
    ELSE IF cs[1] = " " THEN strip(Tail(cs))
    ELSE IF cs[Len(cs)] = " " THEN strip(SubSeq(cs, 1, Len(cs) - 1))
    ELSE cs

\* "".join(cs): the string the characters spell
RECURSIVE join(_)
join(cs) ==
    IF cs = << >> THEN "" ELSE cs[1] \o join(Tail(cs))

\* str.strip() of a string of the model
str_strip(str) == join(strip(Chars(str)))

\* int(value) of a string: blanks around, an optional sign, decimal digits
py_int(cs) ==
    LET t == strip(cs)
        signed == t # << >> /\ t[1] \in {"+", "-"}
        body == IF signed THEN Tail(t) ELSE t
    IN  IF body # << >> /\ \A i \in DOMAIN body : isdigit(body[i])
        THEN [exc |-> "",
              value |-> IF signed /\ t[1] = "-"
                        THEN 0 - DecimalValue(body)
                        ELSE DecimalValue(body)]
        ELSE [exc |-> "ValueError", value |-> 0]

\* float(s) of a string of digits and dots: the number num / 10^exp
py_float(cs) ==
    LET dots == {i \in DOMAIN cs : cs[i] = "."}
        dot == CHOOSE i \in dots : TRUE
    IN  IF Cardinality(dots) > 1 \/ Cardinality(dots) = Len(cs)
        THEN [exc |-> "ValueError", value |-> << >>]
        ELSE IF dots = {}
        THEN [exc |-> "", value |-> [num |-> DecimalValue(cs), exp |-> 0]]
        ELSE [exc |-> "",
              value |-> [num |-> DecimalValue(SubSeq(cs, 1, dot - 1)
                                              \o SubSeq(cs, dot + 1, Len(cs))),
                         exp |-> Len(cs) - dot]]

(***************************************************************************)
(* suggest_medicine_data: the form fields suggested from a barcode result. *)
(* Each operator is one if-block of the function: it takes the barcode     *)
(* record and the suggestions so far and gives the suggestions after it.   *)
(***************************************************************************)
suggest_name(barcode_info, suggestions_) ==
    LET name == DictGet(barcode_info, "name", None)
        name_or == IF Truthy(name) THEN name
                   ELSE DictGet(barcode_info, "product_name", None)
    IN  IF Truthy(name_or)
        THEN DictSet(suggestions_, "name", name_or)
        ELSE suggestions_

\* the category block with a default: a record without category is
\* suggested the category Other
suggest_category_default(barcode_info, suggestions_) ==
    IF Truthy(DictGet(barcode_info, "category", None))
    THEN DictSet(suggestions_, "category", barcode_info["category"])
    ELSE DictSet(suggestions_, "category", "Other")

suggest_category(barcode_info, suggestions_) ==
    IF Truthy(DictGet(barcode_info, "category", None))
    THEN DictSet(suggestions_, "category", barcode_info["category"])
    ELSE suggestions_

suggest_unit_price(barcode_info, suggestions_) ==
    IF Truthy(DictGet(barcode_info, "estimated_price", None))
    THEN LET price_str == Chars(barcode_info["estimated_price"])
             price == py_float(SelectSeq(price_str,
                                         LAMBDA x : isdigit(x) \/ x = "."))
         IN  IF price.exc = ""
             THEN DictSet(suggestions_, "unit_price", price.value)
             ELSE suggestions_
    ELSE suggestions_

suggest_reorder_point(barcode_info, suggestions_) ==
    IF Truthy(DictGet(barcode_info, "suggested_reorder_point", None))
    THEN LET reorder == py_int(Chars(barcode_info["suggested_reorder_point"]))
         IN  IF reorder.exc = ""
             THEN DictSet(suggestions_, "reorder_point", reorder.value)
             ELSE DictSet(suggestions_, "reorder_point", 10)
    ELSE suggestions_

suggest_batch_number(barcode_info, suggestions_) ==
    IF Truthy(DictGet(barcode_info, "barcode", None))
    THEN DictSet(suggestions_, "batch_number", "BC_" \o barcode_info["barcode"])
    ELSE suggestions_

suggest_location(barcode_info, suggestions_) ==
    IF Truthy(DictGet(barcode_info, "storage_requirements", None))
    THEN DictSet(suggestions_, "location", barcode_info["storage_requirements"])
    ELSE suggestions_

\* info is what the lookup returned: None or a dict
suggest_medicine_data(info) ==
    IF info.none \/ DOMAIN info.value = {}
    THEN << >>
    ELSE LET barcode_info == info.value
         IN  suggest_location(barcode_info,
             suggest_batch_number(barcode_info,
             suggest_reorder_point(barcode_info,
             suggest_unit_price(barcode_info,
             suggest_category(barcode_info,
             suggest_name(barcode_info, << >>))))))

(***************************************************************************)
(* The scanner page (show_barcode_scanner of app.py).  One run of the page *)
(* script with the lookup button pressed strips the text of the barcode    *)
(* field, looks the barcode up, asks for the suggestions when a record     *)
(* came back, and lists the barcode in the session's recent scans.  An    *)
(* entry of the recent scans is its barcode (the timestamp of an entry is  *)
(* not modelled).                                                          *)
(***************************************************************************)
NoLookup ==
    [done |-> FALSE, barcode |-> "", response |-> << >>, llm |-> << >>,
     steps |-> << >>, exc |-> "", none |-> TRUE, value |-> << >>]

NoSuggestions == [called |-> FALSE, value |-> << >>]

\* the recent scans after a run of the page with the lookup button pressed
\* and barcode_input in the text field (app.py 486-501)
add_to_history(history, barcode_input) ==
    LET scan_entry == [barcode |-> str_strip(barcode_input)]
        existing_barcodes == {history[i].barcode : i \in DOMAIN history}
    IN  IF /\ Truthy(barcode_input)
           /\ Truthy(str_strip(barcode_input))
           /\ scan_entry.barcode \notin existing_barcodes
        THEN slice(<< scan_entry >> \o history, 0, 10)
        ELSE history

\* One run of the page with the lookup button pressed.  With an empty text
\* field the button is disabled and the block of the lookup is skipped
\* (app.py 318, 332); otherwise the text is looked up without the blanks
\* around it (336).
show_barcode_scanner(barcode_input, response, llm) ==
    LET barcode == str_strip(barcode_input)
        barcode_info == get_medicine_info_from_barcode(barcode, response, llm)
    IN  /\ IF Truthy(barcode_input)
           THEN /\ lookup' = [done |-> TRUE, barcode |-> barcode,
                              response |-> response, llm |-> llm] @@ barcode_info
                /\ suggestions' =
                      IF ~barcode_info.none /\ DOMAIN barcode_info.value # {}
                      THEN [called |-> TRUE,
                            value |-> suggest_medicine_data(barcode_info)]
                      ELSE NoSuggestions
           ELSE UNCHANGED <<lookup, suggestions>>
        /\ barcode_history' = add_to_history(barcode_history, barcode_input)
        /\ UNCHANGED <<form, status>>
        /\ UNCHANGED other_vars
        /\ UNCHANGED store_vars

\* what the user may have in the text field for a barcode: the barcode,
\* alone or with a blank before it and after it
BarcodeInputs(barcode) == {barcode, " " \o barcode \o " "}

\* The lookup of one run of the scanner page: the text field holds a
\* barcode or a single blank, and the outer world chooses what the product
\* API and the language model answer.
LookupBarcode ==
    /\ ~lookup.done
    /\ \E barcode \in Barcodes, response \in BasicResponses, llm \in LlmResponses :
          \E barcode_input \in BarcodeInputs(barcode) \cup {" "} :
             show_barcode_scanner(barcode_input, response, llm)

\* Streamlit runs the page script again: the locals of the run before,
\* barcode_info and suggestions among them, are gone; the session state
\* stays.
ScriptRerun ==
    /\ lookup.done
    /\ lookup' = NoLookup
    /\ suggestions' = NoSuggestions
    /\ UNCHANGED <<barcode_history, form, status>>
    /\ UNCHANGED other_vars
    /\ UNCHANGED store_vars

\* A session that scans many barcodes.  The barcodes the recent scans do
\* not list are interchangeable: the one scanned next is the first of them.
\* The barcode is the decimal numeral of its number.
ScanCode(i) == ToString(i)

Listed(history, barcode) == \E k \in DOMAIN history : history[k].barcode = barcode

\* in such a session the product API knows the barcode or does not answer,
\* and the language model is out of reach
ScanResponses ==
    { [kind |-> "exception", status_code |-> 0, has_items |-> FALSE, items |-> << >>],
      [kind |-> "response", status_code |-> 200, has_items |-> TRUE,
       items |-> << [title |-> "Amoxil"] >>] }

ScanSession ==
    /\ ~lookup.done
    /\ \E i \in 1..MaxCodes :
          /\ \/ Listed(barcode_history, ScanCode(i))
             \/ \A j \in 1..(i - 1) : Listed(barcode_history, ScanCode(j))
          /\ \E response \in ScanResponses, barcode_input \in BarcodeInputs(ScanCode(i)) :
                show_barcode_scanner(barcode_input, response,
                                     [kind |-> "exception", is_none |-> TRUE, text |-> << >>])

(***************************************************************************)
(* The add-medicine page (show_add_medicine of app.py).  The widgets give  *)
(* the handler a text for the name and the batch number and numbers that   *)
(* are not negative (min_value=0); unit_price is in whole currency units.  *)
(* The form on the scanner page has the same handler, but no run of the    *)
(* page reaches it: drawing the form raises at line 385, and the run that  *)
(* would follow a submission has no lookup button pressed.                 *)
(***************************************************************************)
NoForm == [submitted |-> FALSE, name |-> "", current_stock |-> 0,
           reorder_point |-> 10, unit_price |-> 0, batch_number |-> ""]

FormInputs ==
    { [NoForm EXCEPT !.submitted = TRUE, !.name = "Ab"] } \cup
    { [submitted |-> TRUE, name |-> "Ab", current_stock |-> 1,
       reorder_point |-> 1, unit_price |-> 0, batch_number |-> "B-1"],
      [submitted |-> TRUE, name |-> "Ab", current_stock |-> 0,
       reorder_point |-> 0, unit_price |-> 10000, batch_number |-> ""],
      [submitted |-> TRUE, name |-> "", current_stock |-> 1,
       reorder_point |-> 1, unit_price |-> 0, batch_number |-> ""],
      [submitted |-> TRUE, name |-> "A", current_stock |-> 1,
       reorder_point |-> 1, unit_price |-> 1, batch_number |-> ""],
      [submitted |-> TRUE, name |-> " A ", current_stock |-> 1,
       reorder_point |-> 0, unit_price |-> 1, batch_number |-> "B-1"],
      [submitted |-> TRUE, name |-> "<Ab>", current_stock |-> 0,
       reorder_point |-> 1, unit_price |-> 1, batch_number |-> ""],
      [submitted |-> TRUE, name |-> "Ab", current_stock |-> 1,
       reorder_point |-> 1, unit_price |-> 1, batch_number |-> "B 1"],
      [submitted |-> TRUE, name |-> "Ab", current_stock |-> 1000001,
       reorder_point |-> 1, unit_price |-> 10001, batch_number |-> ""] }

\* the handler of the form's submit button; an exception of add_medicine
\* is caught and shown
show_add_medicine(f, fail) ==
    /\ next_id <= MaxId
    /\ form' = f
    /\ IF Truthy(f.name) /\ f.current_stock >= 0 /\ f.reorder_point >= 0
          /\ f.unit_price >= 0
       THEN StoreStep(add_medicine(medicines, stock_history, next_id, next_hist_id,
                                   f.name, f.current_stock, f.reorder_point,
                                   f.unit_price, fail),
                      [op |-> "add_medicine", outcome |-> ""])
       ELSE UNCHANGED store_vars
    /\ UNCHANGED <<scanner_vars, status>>
    /\ UNCHANGED other_vars

SubmitAddMedicine ==
    \E f \in FormInputs, fail \in {"none", "connect", "insert"} :
        show_add_medicine(f, fail)

(***************************************************************************)
(* The validators of utils.py: the verdict, without the message.           *)
(***************************************************************************)
Letters ==
    { "A", "B", "C", "D", "E", "F", "G", "H", "I", "J", "K", "L", "M",
      "N", "O", "P", "Q", "R", "S", "T", "U", "V", "W", "X", "Y", "Z",
      "a", "b", "c", "d", "e", "f", "g", "h", "i", "j", "k", "l", "m",
      "n", "o", "p", "q", "r", "s", "t", "u", "v", "w", "x", "y", "z" }

validate_medicine_name(name) ==
    IF ~Truthy(name) \/ Len(strip(Chars(name))) < 2
    THEN FALSE
    ELSE IF \E i \in DOMAIN Chars(name) : Chars(name)[i] \in {"<", ">", "\"", "'"}
    THEN FALSE
    ELSE TRUE

validate_batch_number(batch_number) ==
    IF ~Truthy(batch_number)
    THEN TRUE
    ELSE IF ~(\A i \in DOMAIN Chars(batch_number) :
                 LET c == Chars(batch_number)[i]
                 IN  c \in Letters \/ isdigit(c) \/ c \in {"-", "_", "/"})
    THEN FALSE
    ELSE IF Len(Chars(batch_number)) > 50
    THEN FALSE
    ELSE TRUE

validate_price(price) ==
    IF price < 0 THEN FALSE
    ELSE IF price > 10000 THEN FALSE
    ELSE TRUE

validate_stock_quantity(quantity) ==
    IF quantity < 0 THEN FALSE
    ELSE IF quantity > 1000000 THEN FALSE
    ELSE TRUE

(***************************************************************************)
(* The classifier of utils.py.  reorder_point * 1.5 is exact in floating   *)
(* point for the values of an INTEGER column: current_stock <= it exactly  *)
(* when 2 * current_stock <= 3 * reorder_point.                            *)
(***************************************************************************)
\* get_stock_status with the Low boundary excluded
get_stock_status_strict(current_stock, reorder_point) ==
    IF current_stock <= 0 THEN "Critical"
    ELSE IF current_stock < reorder_point THEN "Low"
    ELSE IF 2 * current_stock <= 3 * reorder_point THEN "Warning"
    ELSE "Good"

\* get_stock_status with the Warning test ahead of the Low test
get_stock_status_warning_first(current_stock, reorder_point) ==
    IF current_stock <= 0 THEN "Critical"
    ELSE IF reorder_point <= current_stock /\ 2 * current_stock <= 3 * reorder_point
    THEN "Warning"
    ELSE IF current_stock <= reorder_point THEN "Low"
    ELSE "Good"

get_stock_status(current_stock, reorder_point) ==
    IF current_stock <= 0 THEN "Critical"
    ELSE IF current_stock <= reorder_point THEN "Low"
    ELSE IF 2 * current_stock <= 3 * reorder_point THEN "Warning"
    ELSE "Good"

NoStatus == [current_stock |-> 0, reorder_point |-> 0, result |-> "not called"]

StockRange == (0 - 2)..MaxStock

GetStockStatus ==
    /\ status.result = "not called"
    /\ status' = [status EXCEPT
                     !.result = get_stock_status(status.current_stock,
                                                 status.reorder_point)]
    /\ UNCHANGED <<scanner_vars, form>>
    /\ UNCHANGED other_vars
    /\ UNCHANGED store_vars

(***************************************************************************)
(* The alert priority of utils.py.  reorder_point * 0.5 is exact in        *)
(* floating point: current_stock <= it exactly when                        *)
(* 2 * current_stock <= reorder_point.                                     *)
(***************************************************************************)
NoFnCall == [fn |-> "none", called |-> FALSE]

NoLowStock == [called |-> FALSE, rows |-> << >>, reported |-> FALSE, report |-> {}]

\* Python's min of two numbers
min(a, b) == IF a <= b THEN a ELSE b

\* Python's max of two numbers
max(a, b) == IF a >= b THEN a ELSE b

\* get_alert_priority with < for <= at the reorder point
get_alert_priority_strict(current_stock, reorder_point, days_until_expiry) ==
    LET stock == IF current_stock <= 0 THEN 10
                 ELSE IF 2 * current_stock <= reorder_point THEN 8
                 ELSE IF current_stock < reorder_point THEN 5
                 ELSE 0
        expiry == IF days_until_expiry < 0 THEN 10
                  ELSE IF days_until_expiry <= 7 THEN 8
                  ELSE IF days_until_expiry <= 30 THEN 5
                  ELSE 0
    IN  min(stock + expiry, 20)

\* get_alert_priority with the weights of the two lower stock levels
\* exchanged
get_alert_priority_swapped(current_stock, reorder_point, days_until_expiry) ==
    LET stock == IF current_stock <= 0 THEN 10
                 ELSE IF 2 * current_stock <= reorder_point THEN 5
                 ELSE IF current_stock <= reorder_point THEN 8
                 ELSE 0
        expiry == IF days_until_expiry < 0 THEN 10
                  ELSE IF days_until_expiry <= 7 THEN 8
                  ELSE IF days_until_expiry <= 30 THEN 5
                  ELSE 0
    IN  min(stock + expiry, 20)

get_alert_priority(current_stock, reorder_point, days_until_expiry) ==
    LET stock == IF current_stock <= 0 THEN 10
                 ELSE IF 2 * current_stock <= reorder_point THEN 8
                 ELSE IF current_stock <= reorder_point THEN 5
                 ELSE 0
        expiry == IF days_until_expiry < 0 THEN 10
                  ELSE IF days_until_expiry <= 7 THEN 8
                  ELSE IF days_until_expiry <= 30 THEN 5
                  ELSE 0
    IN  min(stock + expiry, 20)

DayRange == (0 - 2)..MaxDays

GetAlertPriority ==
    /\ fn_call.fn = "get_alert_priority"
    /\ ~fn_call.called
    /\ fn_call' = [fn_call EXCEPT
                      !.called = TRUE,
                      !.result = get_alert_priority(fn_call.current_stock,
                                                    fn_call.reorder_point,
                                                    fn_call.days_until_expiry)]
    /\ UNCHANGED <<scanner_vars, form, status, low_stock, sessions>>
    /\ UNCHANGED store_vars

(***************************************************************************)
(* The criticality buckets of utils.py.  A medicine is a row whose Python  *)
(* indices 2, 3 and 4 (here 3, 4 and 5) are read as current_stock,         *)
(* reorder_point and expiry_date.  A date is a day number; an              *)
(* expiry_date that strptime rejects is [valid |-> FALSE].                 *)
(***************************************************************************)
calculate_days_until_expiry(expiry_date, today) ==
    IF expiry_date.valid THEN expiry_date.day - today ELSE 0

\* the bucket chain with if for the second elif: a priority of 15 or more
\* is appended to critical and to high
criticality_append_no_elif(buckets, medicine, priority) ==
    LET first == IF priority >= 15
                 THEN [buckets EXCEPT !.critical = Append(@, medicine)]
                 ELSE buckets
    IN  IF priority >= 10 THEN [first EXCEPT !.high = Append(@, medicine)]
        ELSE IF priority >= 5 THEN [first EXCEPT !.medium = Append(@, medicine)]
        ELSE [first EXCEPT !.low = Append(@, medicine)]

\* the if/elif chain of the loop body: append the medicine to one bucket
criticality_append(buckets, medicine, priority) ==
    IF priority >= 15 THEN [buckets EXCEPT !.critical = Append(@, medicine)]
    ELSE IF priority >= 10 THEN [buckets EXCEPT !.high = Append(@, medicine)]
    ELSE IF priority >= 5 THEN [buckets EXCEPT !.medium = Append(@, medicine)]
    ELSE [buckets EXCEPT !.low = Append(@, medicine)]

RECURSIVE categorize_loop(_, _, _)
\* the for loop over the medicines, in order
categorize_loop(medicines_, today, buckets) ==
    IF medicines_ = << >> THEN buckets
    ELSE LET medicine == Head(medicines_)
             current_stock == medicine[3]
             reorder_point == medicine[4]
             expiry_date == medicine[5]
             days_until_expiry == calculate_days_until_expiry(expiry_date, today)
             priority == get_alert_priority(current_stock, reorder_point,
                                            days_until_expiry)
         IN  categorize_loop(Tail(medicines_), today,
                             criticality_append(buckets, medicine, priority))

categorize_medicines_by_criticality(medicines_, today) ==
    categorize_loop(medicines_, today,
                    [critical |-> << >>, high |-> << >>, medium |-> << >>,
                     low |-> << >>])

\* the day number of datetime.now().date()
Today == 100

\* rows of every bucket, one of them with an expiry_date that does not parse
CategorizeRows ==
    { <<1, "A", 0, 5, [valid |-> TRUE, day |-> Today - 1]>>,
      <<2, "B", 2, 5, [valid |-> TRUE, day |-> Today + 40]>>,
      <<3, "C", 9, 5, [valid |-> TRUE, day |-> Today + 40]>>,
      <<4, "D", 4, 5, [valid |-> TRUE, day |-> Today + 20]>>,
      <<5, "E", 9, 5, [valid |-> FALSE, day |-> 0]>> }

\* the lists of at most MaxMedicines rows; a row may be there twice
CategorizeLists == UNION { [1..n -> CategorizeRows] : n \in 0..MaxMedicines }

CategorizeMedicines ==
    /\ fn_call.fn = "categorize_medicines_by_criticality"
    /\ ~fn_call.called
    /\ fn_call' = [fn_call EXCEPT
                      !.called = TRUE,
                      !.result = categorize_medicines_by_criticality(
                                     fn_call.medicines, Today)]
    /\ UNCHANGED <<scanner_vars, form, status, low_stock, sessions>>
    /\ UNCHANGED store_vars

(***************************************************************************)
(* The reorder suggestion of utils.py.  avg_daily_usage is None or a       *)
(* number of halves of a unit per day (a float that is exact in binary),   *)
(* so the quantities before int() are kept in halves.                      *)
(***************************************************************************)
\* Python's int() of a number given in halves: the fraction is dropped,
\* towards zero
int_of_halves(halves) ==
    IF halves >= 0 THEN halves \div 2 ELSE 0 - ((0 - halves) \div 2)

NoUsage == [given |-> FALSE, halves |-> 0]

\* the suggested order before int(), in halves
suggested_order_halves(current_stock, reorder_point, avg_daily_usage, lead_time_days) ==
    IF ~avg_daily_usage.given
    THEN 2 * max(reorder_point * 2, 30)
    ELSE LET safety_stock == avg_daily_usage.halves * 3
             order_quantity == (avg_daily_usage.halves * lead_time_days)
                                   + safety_stock - 2 * current_stock
         IN  max(order_quantity, 2 * reorder_point)

\* generate_reorder_suggestion with a truth test for the None test: a usage
\* of 0 is taken as no usage
generate_reorder_suggestion_falsy(current_stock, reorder_point, avg_daily_usage, lead_time_days) ==
    IF ~avg_daily_usage.given \/ avg_daily_usage.halves = 0
    THEN int_of_halves(suggested_order_halves(current_stock, reorder_point,
                                              NoUsage, lead_time_days))
    ELSE int_of_halves(suggested_order_halves(current_stock, reorder_point,
                                              avg_daily_usage, lead_time_days))

generate_reorder_suggestion(current_stock, reorder_point, avg_daily_usage, lead_time_days) ==
    int_of_halves(suggested_order_halves(current_stock, reorder_point,
                                         avg_daily_usage, lead_time_days))

\* the usages given: none, or 0 to MaxUsageHalves halves
UsageRange ==
    {NoUsage} \cup [given : {TRUE}, halves : 0..MaxUsageHalves]

\* the default lead time and a shorter one
LeadTimes == {7, 2}

GenerateReorderSuggestion ==
    /\ fn_call.fn = "generate_reorder_suggestion"
    /\ ~fn_call.called
    /\ fn_call' = [fn_call EXCEPT
                      !.called = TRUE,
                      !.result = generate_reorder_suggestion(
                                     fn_call.current_stock, fn_call.reorder_point,
                                     fn_call.avg_daily_usage, fn_call.lead_time_days)]
    /\ UNCHANGED <<scanner_vars, form, status, low_stock, sessions>>
    /\ UNCHANGED store_vars

(***************************************************************************)
(* The low-stock query of database.py, as the dashboard calls it, and the  *)
(* Low Stock Report of the reports page.                                   *)
(***************************************************************************)
\* the ids of the rows WHERE current_stock <= reorder_point
sql_where_low_stock(meds) ==
    {i \in DOMAIN meds : meds[i].current_stock <= meds[i].reorder_point}

\* the rows of a RealDictCursor for the ids q, in that order
fetchall(meds, q) == [k \in DOMAIN q |-> [id |-> q[k]] @@ meds[q[k]]]

\* the orders in which the ids of a set can be listed
Orders(ids) ==
    {q \in [1..Cardinality(ids) -> ids] : \A i, j \in DOMAIN q : i # j => q[i] # q[j]}

\* get_low_stock_medicines with < in the WHERE clause
get_low_stock_medicines_below(meds) ==
    LET low == {i \in DOMAIN meds : meds[i].current_stock < meds[i].reorder_point}
    IN  {fetchall(meds, q) : q \in
            {q \in Orders(low) :
                \A i, j \in DOMAIN q :
                   i < j => meds[q[i]].current_stock <= meds[q[j]].current_stock}}

\* get_low_stock_medicines without the ORDER BY clause
get_low_stock_medicines_unordered(meds) ==
    {fetchall(meds, q) : q \in Orders(sql_where_low_stock(meds))}

\* SELECT ... WHERE current_stock <= reorder_point ORDER BY current_stock
\* ASC; fetchall(): the lists the query can return (rows of equal stock
\* come in any order)
get_low_stock_medicines(meds) ==
    {fetchall(meds, q) : q \in
        {q \in Orders(sql_where_low_stock(meds)) :
            \A i, j \in DOMAIN q :
               i < j => meds[q[i]].current_stock <= meds[q[j]].current_stock}}

\* the call of get_low_stock_medicines: connect or execute may raise, and a
\* raising execute leaves the connection open (no rows are locked)
GetLowStockMedicines ==
    /\ open_conns = << >>
    /\ \E fail \in {"none", "connect", "select"} :
          IF fail = "none"
          THEN /\ \E rows \in get_low_stock_medicines(medicines) :
                     low_stock' = [low_stock EXCEPT !.called = TRUE, !.rows = rows]
               /\ StoreStep(Returned(medicines, stock_history, next_id, next_hist_id),
                            [op |-> "get_low_stock_medicines", outcome |-> ""])
          ELSE /\ low_stock' = low_stock
               /\ StoreStep(Raised("OperationalError", medicines, stock_history,
                                   next_id, next_hist_id, fail = "select",
                                   IF fail = "select" THEN 114 ELSE 111),
                            [op |-> "get_low_stock_medicines", outcome |-> ""])
    /\ UNCHANGED <<scanner_vars, form, status, fn_call, sessions>>

\* the ids of the rows of the Low Stock Report: the rows of
\* get_all_medicines whose Stock Status is Low or Critical
show_reports_low_stock(meds) ==
    {i \in DOMAIN meds :
        get_stock_status(meds[i].current_stock, meds[i].reorder_point)
            \in {"Low", "Critical"}}

\* a run of the reports page on a store with medicines
ShowReports ==
    /\ open_conns = << >>
    /\ DOMAIN medicines # {}
    /\ ~low_stock.reported
    /\ low_stock' = [low_stock EXCEPT !.reported = TRUE,
                                      !.report = show_reports_low_stock(medicines)]
    /\ StoreStep(Returned(medicines, stock_history, next_id, next_hist_id),
                 [op |-> "get_all_medicines", outcome |-> ""])
    /\ UNCHANGED <<scanner_vars, form, status, fn_call, sessions>>

\* the stocks and reorder points of the rows the query reads
LowStockLevels == (0 - 1)..2

LowStockRows ==
    [name : {"A"}, current_stock : LowStockLevels,
     reorder_point : (0 - 1)..1, unit_price : {0}]

(***************************************************************************)
(* The inventory recommendations of ai_services.py.  A record of the input *)
(* is a dict with the column names of the AI page as keys.  A Unit Price   *)
(* is a float or, as psycopg2 reads a DECIMAL column, a Decimal, which     *)
(* json.dumps does not serialize.  The prompt is kept as the list of       *)
(* summary items that json.dumps writes into it; llm is what the           *)
(* completion endpoint does with the request.                              *)
(***************************************************************************)
\* the record of medicine i, its Unit Price of the type given
InventoryRecord(i, price_type) ==
    [Name |-> ToString(i), CurrentStock |-> i, ReorderPoint |-> 1,
     Category |-> "General", UnitPrice |-> [type |-> price_type, cents |-> 100],
     Supplier |-> "S"]

\* inventory_data[:20]
first_20(inventory_data) == SubSeq(inventory_data, 1, min(20, Len(inventory_data)))

\* the summary_item of a record
summary_item(item) ==
    [name |-> item.Name, current_stock |-> item.CurrentStock,
     reorder_point |-> item.ReorderPoint, category |-> item.Category,
     unit_price |-> item.UnitPrice, supplier |-> item.Supplier]

\* json.dumps raises TypeError on a list with a Decimal in it
json_dumps_raises(inventory_summary) ==
    \E k \in DOMAIN inventory_summary :
        inventory_summary[k].unit_price.type = "Decimal"

\* what a call does: whether the prompt was built, the summary items in it,
\* the summary items of the request the endpoint received, and the outcome
Recommendation(built, prompt, sent, outcome) ==
    [called |-> TRUE, built |-> built, prompt |-> prompt, sent |-> sent,
     outcome |-> outcome]

get_inventory_recommendations(inventory_data, llm) ==
    LET data == first_20(inventory_data)
        inventory_summary == [k \in DOMAIN data |-> summary_item(data[k])]
    IN  IF json_dumps_raises(inventory_summary)
        THEN Recommendation(FALSE, << >>, << >>,
                            "Exception: Failed to generate inventory recommendations")
        ELSE IF llm = "error"
        THEN Recommendation(TRUE, inventory_summary, inventory_summary,
                            "Exception: Failed to generate inventory recommendations")
        ELSE Recommendation(TRUE, inventory_summary, inventory_summary, "ok")

\* the lists of n records: the prices all floats, all Decimals (the rows of
\* the medicines table, as the AI page passes them), or one Decimal among
\* floats
InventoryLists ==
    UNION { { [i \in 1..n |-> InventoryRecord(i, "float")],
              [i \in 1..n |-> InventoryRecord(i, "Decimal")] }
            \cup { [i \in 1..n |-> InventoryRecord(i, IF i = d THEN "Decimal" ELSE "float")] :
                     d \in 1..n }
            : n \in 0..MaxInventory }

GetInventoryRecommendations ==
    /\ fn_call.fn = "get_inventory_recommendations"
    /\ ~fn_call.called
    /\ \E llm \in {"ok", "error"} :
          fn_call' = [fn |-> fn_call.fn, inventory_data |-> fn_call.inventory_data]
                        @@ get_inventory_recommendations(fn_call.inventory_data, llm)
    /\ UNCHANGED <<scanner_vars, form, status, low_stock, sessions>>
    /\ UNCHANGED store_vars

Init ==
    /\ init_database
    /\ lookup = NoLookup
    /\ suggestions = NoSuggestions
    /\ barcode_history = << >>
    /\ form = NoForm
    /\ status = NoStatus
    /\ fn_call = NoFnCall
    /\ low_stock = NoLowStock
    /\ sessions = NoSessions

Next ==
    \/ \E s \in Sessions, fail \in {"none", "connect"} :
          AddMedicineConnect(s, fail)
    \/ \E s \in Sessions, m \in AddInputs, fail \in {"none", "insert"} :
          AddMedicineInsert(s, m, fail)
    \/ \E s \in Sessions : AddMedicineCommit(s)
    \/ \E s \in Sessions, fail \in {"none", "connect"} :
          UpdateStockConnect(s, fail)
    \/ \E s \in Sessions, medicine_id \in Ids, fail \in {"none", "select"} :
          UpdateStockSelect(s, medicine_id, fail)
    \/ \E s \in Sessions, u \in UpdateInputs, fail \in {"none", "update"} :
          UpdateStockUpdate(s, u, fail)
    \/ \E s \in Sessions, fail \in {"none", "insert"} : UpdateStockInsert(s, fail)
    \/ \E s \in Sessions : UpdateStockCommit(s)
    \/ \E s \in Sessions, fail \in {"none", "connect"} : DeleteMedicineConnect(s, fail)
    \/ \E s \in Sessions, medicine_id \in Ids, fail \in {"none", "delete"} :
          DeleteMedicineHistory(s, medicine_id, fail)
    \/ \E s \in Sessions : DeleteMedicineHistoryResume(s)
    \/ \E s \in Sessions, fail \in {"none", "delete"} : DeleteMedicineRow(s, fail)
    \/ \E s \in Sessions : DeleteMedicineCommit(s)
    \/ ConnDealloc

Spec == Init /\ [][Next]_vars

\* the calls of one session, one after the other: a call starts when the
\* call before it has ended and the connection it left open is gone
NextSequential ==
    \/ \E fail \in {"none", "connect"} :
          open_conns = << >> /\ AddMedicineConnect(1, fail)
    \/ \E m \in AddInputs, fail \in {"none", "insert"} : AddMedicineInsert(1, m, fail)
    \/ AddMedicineCommit(1)
    \/ \E fail \in {"none", "connect"} :
          open_conns = << >> /\ UpdateStockConnect(1, fail)
    \/ \E medicine_id \in Ids, fail \in {"none", "select"} :
          UpdateStockSelect(1, medicine_id, fail)
    \/ \E u \in UpdateInputs, fail \in {"none", "update"} :
          UpdateStockUpdate(1, u, fail)
    \/ \E fail \in {"none", "insert"} : UpdateStockInsert(1, fail)
    \/ UpdateStockCommit(1)
    \/ \E fail \in {"none", "connect"} :
          open_conns = << >> /\ DeleteMedicineConnect(1, fail)
    \/ \E medicine_id \in Ids, fail \in {"none", "delete"} :
          DeleteMedicineHistory(1, medicine_id, fail)
    \/ \E fail \in {"none", "delete"} : DeleteMedicineRow(1, fail)
    \/ DeleteMedicineCommit(1)
    \/ ConnDealloc

SpecSequential == Init /\ [][NextSequential]_vars

NextBarcode ==
    \/ LookupBarcode
    \/ ScriptRerun

SpecBarcode == Init /\ [][NextBarcode]_vars

NextScanHistory ==
    \/ ScanSession
    \/ ScriptRerun

SpecScanHistory == Init /\ [][NextScanHistory]_vars

NextForms ==
    \/ SubmitAddMedicine
    \/ ConnDealloc

SpecForms == Init /\ [][NextForms]_vars

\* the arguments of the call are any two integers of the range
InitStatus ==
    /\ init_database
    /\ lookup = NoLookup
    /\ suggestions = NoSuggestions
    /\ barcode_history = << >>
    /\ form = NoForm
    /\ status \in [current_stock : StockRange, reorder_point : StockRange,
                    result : {"not called"}]
    /\ fn_call = NoFnCall
    /\ low_stock = NoLowStock
    /\ sessions = NoSessions

NextStatus == GetStockStatus

SpecStatus == InitStatus /\ [][NextStatus]_vars

\* the state before a call of a function that reads no state: the
\* arguments of the call are drawn from the set args
InitFnCall(args) ==
    /\ init_database
    /\ lookup = NoLookup
    /\ suggestions = NoSuggestions
    /\ barcode_history = << >>
    /\ form = NoForm
    /\ status = NoStatus
    /\ fn_call \in args
    /\ low_stock = NoLowStock
    /\ sessions = NoSessions

AlertPriorityArgs ==
    [fn : {"get_alert_priority"}, called : {FALSE}, current_stock : StockRange,
     reorder_point : StockRange, days_until_expiry : DayRange, result : {0}]

InitPriority == InitFnCall(AlertPriorityArgs)

NextPriority == GetAlertPriority

SpecPriority == InitPriority /\ [][NextPriority]_vars

CategorizeArgs ==
    [fn : {"categorize_medicines_by_criticality"}, called : {FALSE},
     medicines : CategorizeLists,
     result : {[critical |-> << >>, high |-> << >>, medium |-> << >>, low |-> << >>]}]

InitCategorize == InitFnCall(CategorizeArgs)

NextCategorize == CategorizeMedicines

SpecCategorize == InitCategorize /\ [][NextCategorize]_vars

ReorderArgs ==
    [fn : {"generate_reorder_suggestion"}, called : {FALSE},
     current_stock : StockRange, reorder_point : StockRange,
     avg_daily_usage : UsageRange, lead_time_days : LeadTimes, result : {0}]

InitReorder == InitFnCall(ReorderArgs)

NextReorder == GenerateReorderSuggestion

SpecReorder == InitReorder /\ [][NextReorder]_vars

\* the store after add_medicine has returned for each of at most MaxRows
\* medicines
InitLowStock ==
    /\ \E n \in 0..MaxRows :
          /\ medicines \in [1..n -> LowStockRows]
          /\ next_id = n + 1
    /\ stock_history = << >>
    /\ next_hist_id = 1
    /\ open_conns = << >>
    /\ last_call = [op |-> "add_medicine", outcome |-> "ok"]
    /\ lookup = NoLookup
    /\ suggestions = NoSuggestions
    /\ barcode_history = << >>
    /\ form = NoForm
    /\ status = NoStatus
    /\ fn_call = NoFnCall
    /\ low_stock = NoLowStock
    /\ sessions = NoSessions

NextLowStock ==
    \/ GetLowStockMedicines
    \/ ShowReports
    \/ ConnDealloc

SpecLowStock == InitLowStock /\ [][NextLowStock]_vars

RecommendArgs ==
    [fn : {"get_inventory_recommendations"}, called : {FALSE},
     inventory_data : InventoryLists, built : {FALSE}, prompt : {<< >>},
     sent : {<< >>}, outcome : {"not called"}]

InitRecommend == InitFnCall(RecommendArgs)

NextRecommend == GetInventoryRecommendations

SpecRecommend == InitRecommend /\ [][NextRecommend]_vars

(***************************************************************************)
(* Properties of the inventory store.                                      *)
(***************************************************************************)
HistoryIds(hist) == history_ids(hist)

\* the rows of hist that reference another medicine
HistoryNotOf(hist, medicine_id) ==
    SelectSeq(hist, LAMBDA h : h.medicine_id # medicine_id)

\* C1: update_stock(id, new_stock, reason) on an existing medicine whose
\* stock is s appends exactly one history row {id, s, new_stock, reason},
\* sets the medicine's current_stock to new_stock (a read of the medicine
\* returns new_stock) and leaves every other medicine and every history row
\* that was there unchanged.
C1_UpdateStockEffect ==
    [][\A s \in Sessions :
          (At(s, "update_stock", "inserted") /\ UpdateStockCommit(s)) =>
             LET id == sessions[s].medicine_id
                 n == sessions[s].new_stock
                 r == sessions[s].reason
             IN  /\ id \in DOMAIN medicines
                 /\ sessions' = session_ended(s)
                 /\ open_conns' = open_conns
                 /\ Len(stock_history') = Len(stock_history) + 1
                 /\ SubSeq(stock_history', 1, Len(stock_history)) = stock_history
                 /\ LET h == stock_history'[Len(stock_history')]
                    IN  /\ h.medicine_id = id
                        /\ h.old_stock = medicines[id].current_stock
                        /\ h.new_stock = n
                        /\ h.change_reason = r
                 /\ DOMAIN medicines' = DOMAIN medicines
                 /\ medicines'[id] = [medicines[id] EXCEPT !.current_stock = n]
                 /\ \A j \in DOMAIN medicines \ {id} : medicines'[j] = medicines[j]
                 /\ get_medicine_by_id(medicines', id)[1].current_stock = n
      ]_vars

\* An update has changed the stock of one of two medicines, and a history
\* row was there before it.
C1_Witness ==
    /\ AllIdle
    /\ Cardinality(DOMAIN medicines) = 2
    /\ Len(stock_history) = 2
    /\ stock_history[2].old_stock # stock_history[2].new_stock
    /\ medicines[stock_history[2].medicine_id].current_stock
          = stock_history[2].new_stock

\* C2: update_stock is atomic.  In every step of the committed tables, also
\* in runs in which the INSERT of update_stock fails after its UPDATE ran, a
\* medicine's stock changes only together with one new history row of that
\* medicine, and a new history row comes only with its stock: the row's
\* new_stock is the stock after the step.
C2_UpdateStockAtomic ==
    [][\A id \in (DOMAIN medicines) \cap (DOMAIN medicines') :
          LET new_rows == {k \in DOMAIN stock_history' :
                              /\ stock_history'[k].id \notin HistoryIds(stock_history)
                              /\ stock_history'[k].medicine_id = id}
          IN  /\ (medicines'[id].current_stock # medicines[id].current_stock)
                    => Cardinality(new_rows) = 1
              /\ \A k \in new_rows :
                    stock_history'[k].new_stock = medicines'[id].current_stock
      ]_vars

\* An update_stock call has failed at its INSERT, after its UPDATE ran on
\* a medicine (none has ever been deleted): the connection it left open is
\* there, no history row has been written and no stock has changed.
C2_Witness ==
    /\ \E k \in DOMAIN open_conns :
          open_conns[k] = [exc |-> "Error", lineno |-> 101]
    /\ DOMAIN medicines # {}
    /\ Cardinality(DOMAIN medicines) = next_id - 1
    /\ stock_history = << >>
    /\ \A id \in DOMAIN medicines :
          \E m \in AddInputs : medicines[id].current_stock = m.current_stock

\* C3: update_stock with an id that is not in the medicines table fails with
\* the not-found error and leaves both tables as they were.
C3_UpdateStockNotFound ==
    [][\A s \in Sessions, id \in Ids :
          (/\ At(s, "update_stock", "connected")
           /\ id \notin DOMAIN medicines
           /\ UpdateStockSelect(s, id, "none")) =>
             /\ open_conns' = Append(open_conns,
                                     [exc |-> "ValueError", lineno |-> 90])
             /\ sessions' = session_ended(s)
             /\ medicines' = medicines
             /\ stock_history' = stock_history
      ]_vars

\* update_stock has just reported not-found while both tables hold rows.
C3_Witness ==
    /\ \E k \in DOMAIN open_conns : open_conns[k].exc = "ValueError"
    /\ DOMAIN medicines # {}
    /\ stock_history # << >>

\* what C4 says of the step in which the delete_medicine(X) call of
\* session s commits and returns
DeleteEffect(s, X) ==
    /\ sessions' = session_ended(s)
    /\ open_conns' = open_conns
    /\ \A q \in get_all_medicines(medicines') :
          \A i \in DOMAIN q : q[i] # X
    /\ \A k \in DOMAIN stock_history' :
          stock_history'[k].medicine_id # X
    /\ get_medicine_by_id(medicines', X) = << >>
    /\ DOMAIN medicines' = (DOMAIN medicines) \ {X}
    /\ \A j \in DOMAIN medicines' : medicines'[j] = medicines[j]
    /\ stock_history' = HistoryNotOf(stock_history, X)

\* C4 as stated: after every delete(X) that returns, X is in no result of
\* list_all, no history row references X, get(X) finds no row, and every
\* other medicine and its history rows are as before.
C4_DeleteEffect ==
    [][\A s \in Sessions, X \in Ids :
          (/\ At(s, "delete_medicine", "row_deleted")
           /\ sessions[s].medicine_id = X
           /\ DeleteMedicineCommit(s)) => DeleteEffect(s, X)
      ]_vars

\* C4 amended: after a delete(X) that returns, unless an add_medicine call
\* of another session stored X after this call's DELETE FROM medicines had
\* found no row X, X is in no result of list_all, no history row
\* references X, get(X) finds no row, and every other medicine and its
\* history rows are as before.
C4_DeleteEffectUnlessAddedMeanwhile ==
    [][\A s \in Sessions, X \in Ids :
          (/\ At(s, "delete_medicine", "row_deleted")
           /\ sessions[s].medicine_id = X
           /\ ~(sessions[s].rowcount = 0 /\ X \in DOMAIN medicines)
           /\ DeleteMedicineCommit(s)) => DeleteEffect(s, X)
      ]_vars

\* One of two medicines has been deleted and a history id is gone with
\* it; the other medicine and its history row remain.
C4_Witness ==
    /\ AllIdle
    /\ open_conns = << >>
    /\ Cardinality(DOMAIN medicines) = 1
    /\ next_id = 3
    /\ Len(stock_history) = 1
    /\ next_hist_id = 3

\* C5: every stock-history row references a medicine that exists.
C5_NoOrphanHistory ==
    \A k \in DOMAIN stock_history :
        stock_history[k].medicine_id \in DOMAIN medicines

\* A medicine with history has been deleted and the history that remains
\* belongs to the medicine that remains.
C5_Witness ==
    /\ AllIdle
    /\ open_conns = << >>
    /\ next_id > 1 + Cardinality(DOMAIN medicines)
    /\ next_hist_id > 1 + Len(stock_history)
    /\ stock_history # << >>

\* C6: in every state the store reaches by the add_medicine and
\* update_stock calls of the pages, every medicine has current_stock >= 0
\* and unit_price >= 0.
C6_NonNegative ==
    \A id \in DOMAIN medicines :
        /\ medicines[id].current_stock >= 0
        /\ medicines[id].unit_price >= 0

\* The add-medicine page has stored a medicine with a price and the
\* inventory page has set a stock to the least number its widget gives:
\* the history row of the update goes from a positive stock to 0 and the
\* medicine is stored with stock 0.
C6_Witness ==
    \E k \in DOMAIN stock_history :
        LET h == stock_history[k]
        IN  /\ h.change_reason = "Manual update"
            /\ h.old_stock > 0
            /\ h.new_stock = 0
            /\ h.medicine_id \in DOMAIN medicines
            /\ medicines[h.medicine_id].current_stock = 0
            /\ \E id \in DOMAIN medicines : medicines[id].unit_price > 0

\* C7: the history log is append-only.  In every step the history rows of
\* the medicines that still exist are all still there, unchanged and in
\* the same order, new rows come after them, and rows go only in a
\* successful delete_medicine of the medicine they reference.
C7_HistoryAppendOnly ==
    [][LET kept == SelectSeq(stock_history,
                             LAMBDA h : h.medicine_id \in DOMAIN medicines')
       IN  /\ Len(stock_history') >= Len(kept)
           /\ SubSeq(stock_history', 1, Len(kept)) = kept
           /\ \A k \in (Len(kept) + 1)..Len(stock_history') :
                 stock_history'[k].id \notin HistoryIds(stock_history)
           /\ Len(kept) < Len(stock_history) =>
                 \E s \in Sessions : DeleteMedicineCommit(s)
      ]_vars

\* Two medicines have been updated, the first one first, and the second
\* has been deleted since: its history row has gone with it and the row
\* of the first is still there as it was written.
C7_Witness ==
    /\ AllIdle
    /\ next_hist_id = 3
    /\ Len(stock_history) = 1
    /\ stock_history[1].id = 1
    /\ stock_history[1].medicine_id = 1
    /\ DOMAIN medicines = {1}
    /\ next_id = 3
    /\ stock_history[1].new_stock = medicines[1].current_stock

(***************************************************************************)
(* Properties of the barcode resolver.                                     *)
(***************************************************************************)
Count(seq, x) == Cardinality({i \in DOMAIN seq : seq[i] = x})

\* the product API answered with an item whose title is not empty
BasicFoundName(response) ==
    /\ response.kind = "response"
    /\ response.status_code = 200
    /\ response.has_items
    /\ response.items # << >>
    /\ "title" \in DOMAIN response.items[1]
    /\ response.items[1].title # ""

\* the language model returned a response text
LlmReturnedText(llm) ==
    llm.kind = "content" /\ ~llm.is_none /\ llm.text # << >>

\* C8: barcode resolution is a single pass.  The basic lookup runs exactly
\* once; when it gives a non-empty product name the AI enhancement runs
\* exactly once and the AI-only guess never; otherwise the AI-only guess
\* runs exactly once and the AI enhancement never; nothing else runs.
C8_SinglePass ==
    lookup.done =>
        /\ Count(lookup.steps, "_lookup_barcode_basic") = 1
        /\ lookup.steps[1] = "_lookup_barcode_basic"
        /\ Len(lookup.steps) = 2
        /\ IF BasicFoundName(lookup.response)
           THEN lookup.steps[2] = "_enhance_with_ai"
           ELSE lookup.steps[2] = "_ai_barcode_lookup"

\* A lookup whose basic lookup gave a name and whose language-model call
\* then failed: the enhancement ran, and nothing after it.
C8_Witness ==
    /\ lookup.done
    /\ BasicFoundName(lookup.response)
    /\ lookup.llm.kind = "exception"
    /\ lookup.steps = << "_lookup_barcode_basic", "_enhance_with_ai" >>

\* C9: the lookup returns None only when the basic lookup gave no usable
\* product data and the language-model call failed; whenever the language
\* model returns a response text the lookup returns a populated record.
C9_NoneOnlyWhenBothFail ==
    lookup.done =>
        /\ lookup.none =>
              (~BasicFoundName(lookup.response) /\ lookup.llm.kind = "exception")
        /\ LlmReturnedText(lookup.llm) =>
              (~lookup.none /\ DOMAIN lookup.value # {})

\* C10: whatever fails in the basic lookup, the language-model call and the
\* JSON parsing, the lookup ends with a returned value, a record or None,
\* and no exception leaves it.
C10_NeverRaises ==
    lookup.done => lookup.exc = ""

\* The product API call raised and the response text of the language model
\* has an opening brace but is no JSON: the lookup returned a record.
C10_Witness ==
    /\ lookup.done
    /\ lookup.response.kind = "exception"
    /\ LlmReturnedText(lookup.llm)
    /\ find(lookup.llm.text, LBRACE) # -1
    /\ json_loads(lookup.llm.text).exc # ""
    /\ lookup.exc = ""
    /\ ~lookup.none

\* no part of the text is a well-formed JSON object
NoJsonObject(text) ==
    \A i, j \in DOMAIN text : json_loads(SubSeq(text, i, j)).exc # ""

\* the content of the language model's message, as the resolver holds it
LlmContent(llm) == [is_none |-> llm.is_none, text |-> llm.text]

\* the basic lookup gave no data: the call raised (timeout, network error),
\* the status is not 200, or the item list is absent or empty
BasicFails(response) ==
    \/ response.kind = "exception"
    \/ response.status_code # 200
    \/ ~response.has_items
    \/ response.items = << >>

\* C11: in the AI enhancement, whenever the response text holds no
\* well-formed JSON object (a text with no opening brace included), the
\* lookup returns the basic product record with the raw response text
\* attached as ai_analysis.
C11_EnhanceRawTextFallback ==
    (/\ lookup.done
     /\ BasicFoundName(lookup.response)
     /\ LlmReturnedText(lookup.llm)
     /\ NoJsonObject(lookup.llm.text)) =>
        LET basic == _lookup_barcode_basic(lookup.barcode, lookup.response).value
        IN  /\ ~lookup.none
            /\ DOMAIN lookup.value = (DOMAIN basic) \cup {"ai_analysis"}
            /\ \A key \in DOMAIN basic : lookup.value[key] = basic[key]
            /\ "ai_analysis" \in DOMAIN lookup.value
            /\ lookup.value["ai_analysis"] = LlmContent(lookup.llm)

\* C12: in the AI-only guess, whenever the response text holds no
\* well-formed JSON object (a text with no opening brace included), the
\* lookup returns the minimal record: the scanned barcode, the name
\* 'Unknown Product', confidence 'low' and the raw response text.
C12_GuessMinimalRecord ==
    (/\ lookup.done
     /\ ~BasicFoundName(lookup.response)
     /\ LlmReturnedText(lookup.llm)
     /\ NoJsonObject(lookup.llm.text)) =>
        /\ ~lookup.none
        /\ DOMAIN lookup.value = {"barcode", "likely_medicine", "product_name",
                                  "confidence", "ai_response"}
        /\ lookup.value["barcode"] = lookup.barcode
        /\ lookup.value["product_name"] = "Unknown Product"
        /\ lookup.value["confidence"] = "low"
        /\ lookup.value["ai_response"] = LlmContent(lookup.llm)

\* C13: when the basic lookup times out, meets a network error, gets a
\* status other than 200 or gets an absent or empty item list, it returns
\* None without raising and the resolver runs the AI-only guess next.
C13_BasicFailureFallsBack ==
    (lookup.done /\ BasicFails(lookup.response)) =>
        LET r == _lookup_barcode_basic(lookup.barcode, lookup.response)
        IN  /\ r.exc = ""
            /\ r.none
            /\ lookup.steps = << "_lookup_barcode_basic", "_ai_barcode_lookup" >>

\* The product API call raised and the AI-only guess gave a record parsed
\* from the language model's JSON.
C13_Witness ==
    /\ lookup.done
    /\ lookup.response.kind = "exception"
    /\ lookup.steps = << "_lookup_barcode_basic", "_ai_barcode_lookup" >>
    /\ ~lookup.none
    /\ DOMAIN lookup.value = {"product_name"}
    /\ lookup.value["product_name"] = "Amoxicillin 500mg"


\* C14: for every scanned code c whose lookup returns a record, whatever
\* keys the language model's JSON has, suggest_medicine_data of that record
\* gives batch_number = 'BC_' followed by c.
C14_BatchNumberFromBarcode ==
    (lookup.done /\ ~lookup.none) =>
        LET suggested == suggest_medicine_data(lookup)
        IN  /\ "batch_number" \in DOMAIN suggested
            /\ suggested["batch_number"] = "BC_" \o lookup.barcode

\* C15: suggest_medicine_data of a non-empty barcode record always gives a
\* reorder_point: the integer suggested_reorder_point writes when it parses
\* as one, and 10 when it is absent or does not parse.
C15_ReorderPointAlwaysThere ==
    suggestions.called =>
        LET source == DictGet(lookup.value, "suggested_reorder_point", None)
            parsed == py_int(Chars(source))
        IN  /\ "reorder_point" \in DOMAIN suggestions.value
            /\ suggestions.value["reorder_point"] =
                  IF source # None /\ parsed.exc = "" THEN parsed.value ELSE 10

\* C16: every field suggest_medicine_data gives has a non-empty source
\* field in the record it was given: name comes from name or product_name,
\* category from category, unit_price from estimated_price, location from
\* storage_requirements; batch_number and reorder_point are the only other
\* fields; a lookup result that is None or empty gives no suggestion.
C16_SuggestionsHaveSources ==
    /\ (lookup.done /\ (lookup.none \/ DOMAIN lookup.value = {})) =>
          /\ suggest_medicine_data(lookup) = << >>
          /\ suggestions.value = << >>
    /\ suggestions.called =>
          LET given == lookup.value
              out == suggestions.value
              src(key) == DictGet(given, key, None)
          IN  /\ DOMAIN out \subseteq {"name", "category", "unit_price",
                                       "location", "batch_number",
                                       "reorder_point"}
              /\ "name" \in DOMAIN out =>
                    \/ Truthy(src("name")) /\ out["name"] = src("name")
                    \/ Truthy(src("product_name"))
                          /\ out["name"] = src("product_name")
              /\ "category" \in DOMAIN out =>
                    Truthy(src("category")) /\ out["category"] = src("category")
              /\ "unit_price" \in DOMAIN out => Truthy(src("estimated_price"))
              /\ "location" \in DOMAIN out =>
                    /\ Truthy(src("storage_requirements"))
                    /\ out["location"] = src("storage_requirements")

\* The enhancement added a price to a basic record with a name and a
\* category: name, category, unit_price and batch_number are suggested,
\* and the price is 12.50.
C16_Witness ==
    /\ suggestions.called
    /\ DOMAIN suggestions.value = {"name", "category", "unit_price", "batch_number"}
    /\ suggestions.value["category"] = "Health"
    /\ suggestions.value["unit_price"] = [num |-> 1250, exp |-> 2]
    /\ "brand" \in DOMAIN lookup.value


(***************************************************************************)
(* Properties of the pages and of the classifier.                          *)
(***************************************************************************)
\* C17: after any sequence of lookups in a session the recent scans hold
\* at most 10 entries, no two of them with the same barcode, and the first
\* entry is the barcode of the latest lookup, also when that barcode had
\* been scanned before.
C17_RecentScansMostRecentFirst ==
    /\ Len(barcode_history) <= 10
    /\ \A i, j \in DOMAIN barcode_history :
          i # j => barcode_history[i].barcode # barcode_history[j].barcode
    /\ lookup.done =>
          /\ barcode_history # << >>
          /\ barcode_history[1].barcode = lookup.barcode

\* C18: every store call has closed its connection when control is back at
\* the caller, on the success path and on every error path: no connection
\* is ever left open after a call.
C18_NoConnectionLeftOpen ==
    open_conns = << >>

\* the four validators accept the form
PassesValidators(f) ==
    /\ validate_medicine_name(f.name)
    /\ validate_batch_number(f.batch_number)
    /\ validate_price(f.unit_price)
    /\ validate_stock_quantity(f.current_stock)

\* C19: in the add-medicine flow a medicine is persisted only if the form
\* passes the validators; for a form that fails one of them the store's
\* add operation is not attempted.
C19_ValidatedBeforeAdd ==
    [][\A f \in FormInputs, fail \in {"none", "connect", "insert"} :
          show_add_medicine(f, fail) =>
             (PassesValidators(f) \/ UNCHANGED store_vars)
      ]_vars

\* C20: get_stock_status gives Critical for current_stock <= 0, Low for
\* 0 < current_stock <= reorder_point, Warning for reorder_point <
\* current_stock <= 1.5 * reorder_point and Good otherwise: one of the four
\* values for any two integers.
C20_StockStatus ==
    status.result # "not called" =>
        LET c == status.current_stock
            r == status.reorder_point
        IN  /\ status.result \in {"Critical", "Low", "Warning", "Good"}
            /\ (status.result = "Critical") <=> (c <= 0)
            /\ (status.result = "Low") <=> (0 < c /\ c <= r)
            /\ (status.result = "Warning") <=>
                  (0 < c /\ r < c /\ 2 * c <= 3 * r)
            /\ (status.result = "Good") <=>
                  (0 < c /\ r < c /\ 2 * c > 3 * r)

\* the stock equals the reorder point: the status is Low, not Warning
C20_Witness ==
    /\ status.result = "Low"
    /\ status.current_stock = status.reorder_point
    /\ status.current_stock = 3


\* C21: for every reorder_point >= 0, get_stock_status with current_stock
\* equal to reorder_point is Low, not Warning.
C21_BoundaryIsLow ==
    (/\ status.result # "not called"
     /\ status.reorder_point >= 0
     /\ status.current_stock = status.reorder_point) =>
        status.result = "Low"

\* C21 as amended: for every reorder_point > 0, get_stock_status with
\* current_stock equal to reorder_point is Low, not Warning; with both
\* equal to 0 it is Critical.
C21_BoundaryIsLowAbove0 ==
    (/\ status.result # "not called"
     /\ status.reorder_point >= 0
     /\ status.current_stock = status.reorder_point) =>
        /\ status.reorder_point > 0 => status.result = "Low"
        /\ status.reorder_point = 0 => status.result = "Critical"

\* the stock equals a reorder point of 2, where 1.5 times the reorder
\* point is a whole number
C21_Witness ==
    /\ status.result = "Low"
    /\ status.current_stock = 2
    /\ status.reorder_point = 2

\* C22: get_alert_priority is min(stock component + expiry component, 20):
\* stock 10 for current_stock <= 0, else 8 for current_stock <= half the
\* reorder point, else 5 for current_stock <= reorder_point, else 0;
\* expiry 10 for days < 0, else 8 for days <= 7, else 5 for days <= 30,
\* else 0; the result is within 0..20.
C22_AlertPriority ==
    (fn_call.fn = "get_alert_priority" /\ fn_call.called) =>
        LET c == fn_call.current_stock
            r == fn_call.reorder_point
            d == fn_call.days_until_expiry
            stock == CASE c <= 0 -> 10
                       [] c > 0 /\ 2 * c <= r -> 8
                       [] c > 0 /\ 2 * c > r /\ c <= r -> 5
                       [] OTHER -> 0
            expiry == CASE d < 0 -> 10
                        [] d >= 0 /\ d <= 7 -> 8
                        [] d > 7 /\ d <= 30 -> 5
                        [] OTHER -> 0
        IN  /\ fn_call.result = (IF stock + expiry < 20 THEN stock + expiry ELSE 20)
            /\ fn_call.result \in 0..20

\* both components are at their highest: the sum is 20
C22_Witness ==
    /\ fn_call.fn = "get_alert_priority"
    /\ fn_call.called
    /\ fn_call.current_stock = 0
    /\ fn_call.days_until_expiry < 0
    /\ fn_call.result = 20

\* C23: get_alert_priority does not decrease when current_stock decreases
\* (reorder_point and days fixed) nor when days_until_expiry decreases
\* (stock and reorder_point fixed).
C23_AlertPriorityMonotone ==
    (fn_call.fn = "get_alert_priority" /\ fn_call.called) =>
        LET s == fn_call.current_stock
            r == fn_call.reorder_point
            d == fn_call.days_until_expiry
        IN  /\ \A s2 \in StockRange :
                  s <= s2 => fn_call.result >= get_alert_priority(s2, r, d)
            /\ \A d2 \in DayRange :
                  d <= d2 => fn_call.result >= get_alert_priority(s, r, d2)

\* a stock at half the reorder point: one unit more of stock lowers the
\* priority, and so does one day more
C23_Witness ==
    /\ fn_call.fn = "get_alert_priority"
    /\ fn_call.called
    /\ fn_call.current_stock = 2
    /\ fn_call.reorder_point = 4
    /\ fn_call.days_until_expiry = 7
    /\ fn_call.result = 16
    /\ get_alert_priority(3, 4, 7) = 13
    /\ get_alert_priority(2, 4, 8) = 13


\* the elements of a list
Elements(list) == { list[i] : i \in 1..Len(list) }

\* the rows of a list that are in a set, in the order of the list
Kept(list, set) == SelectSeq(list, LAMBDA m : m \in set)

BucketNames == {"critical", "high", "medium", "low"}

\* C24: categorize_medicines_by_criticality puts every medicine of the
\* input in exactly one of the buckets critical, high, medium, low: the
\* bucket sizes sum to the input size, no medicine is in two buckets, and
\* each bucket holds its medicines in input order.
C24_StablePartition ==
    (fn_call.fn = "categorize_medicines_by_criticality" /\ fn_call.called) =>
        LET input == fn_call.medicines
            out == fn_call.result
        IN  /\ DOMAIN out = BucketNames
            /\ Len(out.critical) + Len(out.high) + Len(out.medium) + Len(out.low)
                   = Len(input)
            /\ \A m \in Elements(input) :
                   Cardinality({b \in BucketNames : m \in Elements(out[b])}) = 1
            /\ \A b \in BucketNames : out[b] = Kept(input, Elements(out[b]))

\* three medicines, two of them for one bucket with a medicine of another
\* bucket between them in the input
C24_Witness ==
    /\ fn_call.fn = "categorize_medicines_by_criticality"
    /\ fn_call.called
    /\ Len(fn_call.medicines) = 3
    /\ fn_call.medicines[1][1] = 5
    /\ fn_call.medicines[2][1] = 1
    /\ fn_call.medicines[3][1] = 2
    /\ Len(fn_call.result.medium) = 2
    /\ fn_call.result.medium[1][1] = 5
    /\ fn_call.result.medium[2][1] = 2
    /\ Len(fn_call.result.critical) = 1


\* twice the quantity the reorder formulas give for the arguments of the
\* call: max(2 * reorder_point, 30) without a usage, and
\* max(usage * lead_time_days + 3 * usage - current_stock, reorder_point)
\* with one
ReorderFormulaHalves ==
    LET c == fn_call.current_stock
        r == fn_call.reorder_point
        h == fn_call.avg_daily_usage.halves
        l == fn_call.lead_time_days
        ordered == h * l + 3 * h - 2 * c
    IN  IF fn_call.avg_daily_usage.given
        THEN (IF ordered >= 2 * r THEN ordered ELSE 2 * r)
        ELSE (IF 2 * r >= 30 THEN 4 * r ELSE 60)

\* C25: generate_reorder_suggestion returns max(2 * reorder_point, 30)
\* when no usage is given and max(avg_daily_usage * lead_time_days
\* + 3 * avg_daily_usage - current_stock, reorder_point) when one is given,
\* a usage of 0 included; for reorder_point >= 0 the result is not negative
\* and not below reorder_point.
C25_ReorderSuggestion ==
    (fn_call.fn = "generate_reorder_suggestion" /\ fn_call.called) =>
        /\ 2 * fn_call.result = ReorderFormulaHalves
        /\ fn_call.reorder_point >= 0 =>
               /\ fn_call.result >= 0
               /\ fn_call.result >= fn_call.reorder_point

\* C25 as amended: generate_reorder_suggestion returns the quantity of
\* the formulas with its fraction dropped (rounded towards zero), which is
\* the quantity itself when that is a whole number; a usage of 0 is a
\* given usage; for reorder_point >= 0 the result is not negative and not
\* below reorder_point.
C25_ReorderSuggestionWhole ==
    (fn_call.fn = "generate_reorder_suggestion" /\ fn_call.called) =>
        LET q == ReorderFormulaHalves
            res == fn_call.result
        IN  /\ q >= 0 => (2 * res <= q /\ q < 2 * res + 2)
            /\ q < 0 => (2 * res >= q /\ q > 2 * res - 2)
            /\ fn_call.reorder_point >= 0 =>
                   /\ res >= 0
                   /\ res >= fn_call.reorder_point

\* a usage of half a unit a day over 2 days: the formula gives 2.5 and the
\* result is 2
C25_Witness ==
    /\ fn_call.fn = "generate_reorder_suggestion"
    /\ fn_call.called
    /\ fn_call.avg_daily_usage = [given |-> TRUE, halves |-> 1]
    /\ fn_call.lead_time_days = 2
    /\ fn_call.current_stock = 0
    /\ fn_call.reorder_point = 1
    /\ ReorderFormulaHalves = 5
    /\ fn_call.result = 2


\* C26: in every store state, get_low_stock_medicines returns exactly the
\* medicines with current_stock <= reorder_point, each once, in ascending
\* order of current_stock, and leaves the store as it was.
C26_LowStockQuery ==
    [][(/\ last_call'.op = "get_low_stock_medicines"
        /\ Len(open_conns') >= Len(open_conns)) =>
           /\ medicines' = medicines
           /\ stock_history' = stock_history
           /\ next_id' = next_id
           /\ next_hist_id' = next_hist_id
           /\ last_call'.outcome = "ok" =>
                 LET rows == low_stock'.rows
                 IN  /\ low_stock'.called
                     /\ {rows[k].id : k \in DOMAIN rows}
                            = {i \in DOMAIN medicines :
                                 medicines[i].current_stock
                                     <= medicines[i].reorder_point}
                     /\ \A j, k \in DOMAIN rows : j # k => rows[j].id # rows[k].id
                     /\ \A k \in DOMAIN rows :
                           /\ rows[k].current_stock
                                  = medicines[rows[k].id].current_stock
                           /\ rows[k].reorder_point
                                  = medicines[rows[k].id].reorder_point
                     /\ \A j, k \in DOMAIN rows :
                           j < k => rows[j].current_stock <= rows[k].current_stock
      ]_vars

\* a store of two medicines at or below their reorder points, the second
\* with the lower stock and listed first
C26_Witness ==
    /\ low_stock.called
    /\ last_call = [op |-> "get_low_stock_medicines", outcome |-> "ok"]
    /\ DOMAIN medicines = {1, 2}
    /\ Len(low_stock.rows) = 2
    /\ low_stock.rows[1].id = 2
    /\ low_stock.rows[1].current_stock < low_stock.rows[2].current_stock

\* C30: when every reorder point of the store is non-negative, the
\* medicines get_low_stock_medicines returns (the dashboard's low-stock
\* alerts) are those whose get_stock_status is Low or Critical (the rows of
\* the reports' Low Stock Report).
C30_AlertsMatchReport ==
    (/\ low_stock.called
     /\ \A i \in DOMAIN medicines : medicines[i].reorder_point >= 0) =>
        /\ \A i \in DOMAIN medicines :
              (\E k \in DOMAIN low_stock.rows : low_stock.rows[k].id = i)
                  <=> get_stock_status(medicines[i].current_stock,
                                       medicines[i].reorder_point)
                          \in {"Low", "Critical"}
        /\ low_stock.reported =>
              {low_stock.rows[k].id : k \in DOMAIN low_stock.rows} = low_stock.report

\* both pages have run on a store with a medicine at its reorder point
\* (Low), one out of stock with reorder point 0 (Critical), the report
\* holding both
C30_Witness ==
    /\ low_stock.called
    /\ low_stock.reported
    /\ DOMAIN medicines = {1, 2}
    /\ medicines[1].current_stock = 1
    /\ medicines[1].reorder_point = 1
    /\ medicines[2].current_stock = 0
    /\ medicines[2].reorder_point = 0
    /\ low_stock.report = {1, 2}
    /\ Len(low_stock.rows) = 2


\* C27: get_inventory_recommendations builds its prompt from exactly the
\* first min(20, n) records of its n records, in input order, and no record
\* after the 20th reaches the completion endpoint.
C27_PromptFromFirst20 ==
    (fn_call.fn = "get_inventory_recommendations" /\ fn_call.called) =>
        LET input == fn_call.inventory_data
            n == Len(input)
            kept == IF n < 20 THEN n ELSE 20
        IN  /\ fn_call.built
            /\ Len(fn_call.prompt) = kept
            /\ \A k \in 1..kept :
                  /\ fn_call.prompt[k].name = input[k].Name
                  /\ fn_call.prompt[k].current_stock = input[k].CurrentStock
                  /\ fn_call.prompt[k].unit_price = input[k].UnitPrice
            /\ \A k \in DOMAIN fn_call.sent :
                  \A j \in DOMAIN input :
                      j > 20 => fn_call.sent[k].name # input[j].Name

\* when json.dumps serializes the first 20 records, the prompt is built
\* from the first min(20, n) records in input order and the endpoint
\* receives that prompt
PromptFromFirst20Serializable ==
    (/\ fn_call.fn = "get_inventory_recommendations"
     /\ fn_call.called
     /\ \A k \in 1..Len(fn_call.inventory_data) :
           k <= 20 => fn_call.inventory_data[k].UnitPrice.type = "float") =>
        LET input == fn_call.inventory_data
            n == Len(input)
            kept == IF n < 20 THEN n ELSE 20
        IN  /\ fn_call.built
            /\ Len(fn_call.prompt) = kept
            /\ fn_call.sent = fn_call.prompt
            /\ \A k \in 1..kept :
                  /\ fn_call.prompt[k].name = input[k].Name
                  /\ fn_call.prompt[k].current_stock = input[k].CurrentStock
                  /\ fn_call.prompt[k].unit_price = input[k].UnitPrice


\* C28: after any sequential series of add_medicine, update_stock and
\* delete_medicine calls, the history rows of each existing medicine, in
\* creation order, form a chain: each row's old_stock is the new_stock of
\* the row before it, and the last row's new_stock is the medicine's
\* current_stock.
C28_HistoryChain ==
    \A id \in DOMAIN medicines :
        LET rows == SelectSeq(stock_history, LAMBDA h : h.medicine_id = id)
        IN  /\ \A k \in 2..Len(rows) : rows[k].old_stock = rows[k - 1].new_stock
            /\ rows # << >> => rows[Len(rows)].new_stock = medicines[id].current_stock

\* a medicine updated twice, each time to another stock
C28_Witness ==
    \E id \in DOMAIN medicines :
        LET rows == SelectSeq(stock_history, LAMBDA h : h.medicine_id = id)
        IN  /\ Len(rows) = 2
            /\ rows[1].old_stock # rows[1].new_stock
            /\ rows[2].old_stock # rows[2].new_stock
            /\ rows[2].new_stock = medicines[id].current_stock

\* C29: when update_stock calls on one medicine run concurrently in
\* different sessions, every committed history row's old_stock is the stock
\* its session's UPDATE overwrote: no history row records a stale value.
\* The session holds the row's lock from its UPDATE to its commit, so the
\* stock the UPDATE overwrote is the committed stock the commit replaces.
C29_NoStaleOldStock ==
    [][\A s \in Sessions :
          (At(s, "update_stock", "inserted") /\ UpdateStockCommit(s)) =>
              LET h == stock_history'[Len(stock_history')]
              IN  h.old_stock = medicines[h.medicine_id].current_stock
      ]_vars

====
